---- MODULE Spec2Model ----
(***************************************************************************)
(* Phase orchestration and resource allocation engine of the hackapizza    *)
(* agent.                                                                  *)
(*                                                                         *)
(* SpecOrch : the asyncio event loop of hackapizza/orchestrator.py: the    *)
(*            stream reader dispatching events, the phase-handler tasks    *)
(*            started by _run, the speculative strategy task.              *)
(*                                                                         *)
(* SpecTurn : the same loop with two turn ids, recording the turn id each  *)
(*            handler reads.                                               *)
(*                                                                         *)
(* SpecReader : the stream readers (hackapizza/orchestrator.py,            *)
(*            orchestrator.py, gameorchestrator.py): connection life       *)
(*            cycle and handle_line.                                       *)
(*                                                                         *)
(* SpecMarket : the planner functions (build_ingredient_quantities,        *)
(*            compute_missing) and one run of hackapizza/market_agent.py's *)
(*            run_market_agent over one restaurant state.                  *)
(* SpecLegacyMarket : one run of market_agent.py's run_market_agent.       *)
(*                                                                         *)
(* SpecBid : one call of hackapizza/bid_agent.py's run_bid_agent: the      *)
(*            strategy file, the bids of the path taken, the submission.   *)
(*                                                                         *)
(* SpecMatch : one call of find_best_entries (both market agents) over an  *)
(*            order book.                                                  *)
(*                                                                         *)
(* SpecServe : the serving phase of hackapizza/serving_agent.py: the       *)
(*            polling task run_serving_agent and the stream reader's       *)
(*            handle_new_client / handle_dish_ready over the module state. *)
(*                                                                         *)
(* Money is counted in tenths of a unit, so that balance * BUDGET_FRACTION *)
(* is an integer: the names of such amounts end in 10.                     *)
(*                                                                         *)
(* asyncio is modelled as it schedules: `ready` is the loop's FIFO queue   *)
(* of callbacks (call_soon); a task is either in that queue ("ready"),     *)
(* suspended on a network future ("waitio"), suspended on another task     *)
(* ("waitstrat") or "done".  Task.cancel() on a suspended task cancels the *)
(* future it waits for, which schedules the task's wakeup; the             *)
(* CancelledError is thrown into the coroutine when that wakeup runs.      *)
(***************************************************************************)
EXTENDS Integers, Sequences, FiniteSets, TLC

\* ------------------------------------------------------------------ bounds
MaxEvents == 3       \* stream events dispatched in one behaviour
MaxTurn == 1         \* turn ids carried by events: 1..MaxTurn
MaxTurnIds == 2      \* turn ids carried by events in SpecTurn: 1..MaxTurnIds
MaxLines == 3        \* stream lines read in one behaviour (SpecReader)
MaxConnects == 3     \* connection attempts in one behaviour (SpecReader)
MaxQty == 2          \* a recipe needs 1..MaxQty of each of its ingredients
MaxInv == 3          \* the inventory holds 0..MaxInv of an ingredient
MaxRecipes == 2      \* target recipes of one plan
MaxPrestige == 1     \* a recipe's prestige: 1..MaxPrestige
MaxCopies == 2       \* copies_target: 0..MaxCopies
MaxClients == 2      \* clients arriving in one serving phase
MaxPhaseEvents == 2  \* phase / reset events dispatched in one behaviour (SpecServe)

\* hackapizza/market_agent.py and market_agent.py
MAX_PRICE_PER_UNIT == 80
BUDGET_FRACTION10 == 7       \* BUDGET_FRACTION = 0.7, in tenths
SELL_PRICE == 25
MAX_BUY_ROUNDS == 5

\* hackapizza/bid_agent.py
MAX_BUDGET == 100000
BID_BUDGET_FRACTION10 == 2
MAX_COPIES_TO_STOCK == 2
MAX_SCALE == 1
MAX_INGREDIENTS == 20
DEFAULT_BID == 20
OPPORTUNISTIC_BID == 2
OPPORTUNISTIC_QTY == 3

VARIABLES
    \* hackapizza/orchestrator.py, module state
    current_turn_id,   \* int
    running_task,      \* _running_task: index into tasks, 0 = None
    in_serving,        \* _in_serving
    strategy_task,     \* _strategy_task: index into stasks, 0 = None
    \* the event loop
    tasks,             \* phase-handler tasks created by _run, in creation order
    stasks,            \* strategy tasks created by on_speaking
    ready,             \* FIFO of scheduled callbacks: <<"h", i>> or <<"s", j>>
    strategy_file,     \* explorer_data/strategy.json: "absent" | "empty" | "targets"
    reader,            \* the stream reader: "listening" | "crashed"
    nevents,           \* events dispatched so far
    event_fault,       \* an event handler has raised inside dispatch_event
    unknown_phases,    \* one entry per "fase sconosciuta" log line: the value
                       \* _running_task had when the event was ignored
    turn_reads,        \* per handler task: the turn id its event carried (0: none)
                       \* and the current_turn_id its handler read (-1: not read)
    \* the stream readers
    variant,           \* which reader runs: "hackapizza" | "root" | "main" | "game"
    connects,          \* session.get calls made
    lines_read,        \* lines taken off the stream
    dispatched,        \* lines handed to dispatch_event / _handle_event
    \* the planner and the market run
    recipes,           \* target recipes (strategy.json simplest_recipes / the menu)
    inventory,         \* the restaurant's inventory, a dict
    balance,           \* the restaurant's balance as get_restaurant returned it
    m_pc,              \* "idle" | "planned" | "round" | "exec" | "done" | "raised"
    planned,           \* what the planner function returned
    dry_run,           \* run_market_agent's dry_run argument
    virtual_inv,       \* dict
    to_buy,            \* dict ingredient -> deficit (legacy: `missing`)
    budget10,          \* `budget`, in tenths
    round_num,         \* the buy loop's round_num
    buy_list,          \* entries of this round still to be executed
    bought_this_round, \* entries bought in this round
    purchased_all,     \* entries bought in the run (legacy: `purchased`)
    sold,              \* SELL entries created by sell_surplus
    sell_errors,       \* ingredients whose create_market_entry call raised
    fetches,           \* calls of client.get_market_entries made by the run
    spent10,           \* find_best_entries' own `spent` at its return, in tenths
    committed10,       \* price * quantity summed over the entries bought, in tenths
    failed,            \* ids of the entries whose execute_transaction raised
    \* the bid agent (hackapizza/bid_agent.py, run_bid_agent)
    b_pc,              \* "idle" | "loaded" | "built" | "done" | "raised"
    b_price_hints,     \* dict, from strategy.json
    b_quantities,      \* dict, from strategy.json
    b_recipes,         \* list of recipes, from strategy.json
    b_copies_target,   \* int, from strategy.json (3 when not read)
    b_preferred,       \* the argument: <<>> for None, else <<list>>
    b_primary_count,   \* the argument
    b_balance,         \* the balance get_restaurant returned to run_bid_agent
    bid_path,          \* "none" | "quantities" | "recipes" | "legacy"
    bids_before,       \* len(bids) before the opportunistic bids are added
    bid_list,          \* the bid list, as saved to bid_list.json
    bid_payload,       \* the batches passed to client.closed_bid, in call order
    \* the serving phase (hackapizza/serving_agent.py) and the game server
    seen_clients,      \* _seen_clients: set of client names
    dish_queue,        \* _dish_queue: dish -> list of client names
    pending_clients,   \* _pending_clients: its keys, a set of client names
    menu_names,        \* _menu_names: the dishes of the loaded menu
    sv_task,           \* the orchestrator's _running_task, as far as serving goes
    sv_reader,         \* the handler the stream reader is suspended in
    meals,             \* the server's /meals list of this serving phase
    sse_pos,           \* position in meals of the last client_spawned delivered
    cooking,           \* dishes in preparation on the server
    prepared,          \* client names of the prepare_dish requests of this phase
    assigned,          \* clients taken off a waiting queue in this phase
    sv_events          \* phase and reset events dispatched so far

orchVars == <<current_turn_id, running_task, in_serving, strategy_task,
              tasks, stasks, ready, strategy_file, reader, nevents,
              event_fault, unknown_phases, turn_reads>>

readerVars == <<variant, connects, lines_read, dispatched>>

marketVars == <<recipes, inventory, balance, m_pc, planned, dry_run, virtual_inv,
                to_buy, budget10, round_num, buy_list, bought_this_round,
                purchased_all, sold, sell_errors, fetches, spent10, committed10,
                failed>>

bidVars == <<b_pc, b_price_hints, b_quantities, b_recipes, b_copies_target,
             b_preferred, b_primary_count, b_balance, bid_path, bids_before,
             bid_list, bid_payload>>

serveVars == <<seen_clients, dish_queue, pending_clients, menu_names, sv_task,
               sv_reader, meals, sse_pos, cooking, prepared, assigned, sv_events>>

vars == <<orchVars, readerVars, marketVars, bidVars, serveVars>>

NoPlan == [fn |-> "none", copies |-> 0, quantities |-> <<>>, target_ings |-> <<>>,
           primary_count |-> 0]

\* The stream reader is not part of the behaviour.
ReaderIdle ==
    /\ variant = "hackapizza"
    /\ connects = 1
    /\ lines_read = 0
    /\ dispatched = 0

\* The orchestrator's tasks are not part of the behaviour.
OrchIdle ==
    /\ current_turn_id = 0
    /\ running_task = 0
    /\ in_serving = FALSE
    /\ strategy_task = 0
    /\ tasks = <<>>
    /\ stasks = <<>>
    /\ ready = <<>>
    /\ strategy_file = "absent"
    /\ nevents = 0
    /\ event_fault = FALSE
    /\ unknown_phases = <<>>
    /\ turn_reads = <<>>

\* No market run has started.
MarketRunIdle ==
    /\ balance = 0
    /\ m_pc = "idle"
    /\ planned = NoPlan
    /\ dry_run = FALSE
    /\ virtual_inv = <<>>
    /\ to_buy = <<>>
    /\ budget10 = 0
    /\ round_num = 0
    /\ buy_list = <<>>
    /\ bought_this_round = <<>>
    /\ purchased_all = <<>>
    /\ sold = <<>>
    /\ sell_errors = <<>>
    /\ fetches = 0
    /\ spent10 = 0
    /\ committed10 = 0
    /\ failed = {}

\* The planner and the market are not part of the behaviour.
MarketIdle ==
    /\ recipes = <<>>
    /\ inventory = <<>>
    /\ MarketRunIdle

\* run_bid_agent has not been called.
BidIdle ==
    /\ b_pc = "idle"
    /\ b_price_hints = <<>>
    /\ b_quantities = <<>>
    /\ b_recipes = <<>>
    /\ b_copies_target = 3
    /\ b_preferred = <<>>
    /\ b_primary_count = 0
    /\ b_balance = 0
    /\ bid_path = "none"
    /\ bids_before = 0
    /\ bid_list = <<>>
    /\ bid_payload = <<>>

\* No serving phase has begun: serving_agent.py's module state as imported.
ServeIdle ==
    /\ seen_clients = {}
    /\ dish_queue = <<>>
    /\ pending_clients = {}
    /\ menu_names = {}
    /\ sv_task = [kind |-> "none", pc |-> "done", todo |-> <<>>, cur |-> "", accepted |-> FALSE]
    /\ sv_reader = [pc |-> "idle", cur |-> "", accepted |-> FALSE]
    /\ meals = <<>>
    /\ sse_pos = 0
    /\ cooking = <<>>
    /\ prepared = <<>>
    /\ assigned = <<>>
    /\ sv_events = 0

Phases == {"speaking", "closed_bid", "waiting", "serving", "stopped"}

\* ------------------------------------------------------- asyncio helpers

NewTask(phase) ==
    [phase |-> phase, pc |-> "start", st |-> "ready", cancel |-> FALSE,
     started |-> FALSE, outcome |-> "none", awaited |-> 0,
     src |-> "none", submitted |-> FALSE, signalled |-> FALSE]

NewStrategyTask ==
    [pc |-> "start", st |-> "ready", cancel |-> FALSE, outcome |-> "none"]

TaskDone(t) == t.st = "done"

\* Task.cancel() of a strategy task: [s |-> stasks, q |-> ready] afterwards.
CancelStrategy(j, s, q) ==
    IF j = 0 \/ TaskDone(s[j]) THEN [s |-> s, q |-> q]
    ELSE IF s[j].st = "ready" THEN [s |-> [s EXCEPT ![j].cancel = TRUE], q |-> q]
    ELSE [s |-> [s EXCEPT ![j].st = "ready", ![j].cancel = TRUE],
          q |-> Append(q, <<"s", j>>)]

\* Task.cancel() of a handler task: a task suspended in `await _strategy_task`
\* forwards the cancellation to the task it awaits and stays suspended on it.
\* signalled records that cancel() was called on the task while it was not done.
CancelTask(i, t, s, q) ==
    IF i = 0 \/ TaskDone(t[i]) THEN [t |-> t, s |-> s, q |-> q]
    ELSE IF t[i].st = "ready" THEN
        [t |-> [t EXCEPT ![i].cancel = TRUE, ![i].signalled = TRUE], s |-> s, q |-> q]
    ELSE IF t[i].st = "waitio" THEN
        [t |-> [t EXCEPT ![i].st = "ready", ![i].cancel = TRUE, ![i].signalled = TRUE],
         s |-> s, q |-> Append(q, <<"h", i>>)]
    ELSE LET c == CancelStrategy(t[i].awaited, s, q)
         IN  [t |-> [t EXCEPT ![i].signalled = TRUE], s |-> c.s, q |-> c.q]

Finish(t, i, oc) ==
    [t EXCEPT ![i].st = "done", ![i].pc = "done", ![i].outcome = oc,
              ![i].cancel = FALSE, ![i].awaited = 0, ![i].src = "none",
              ![i].submitted = FALSE, ![i].phase = "-", ![i].started = FALSE,
              ![i].signalled = FALSE]

Suspend(t, i, pc) ==
    [t EXCEPT ![i].st = "waitio", ![i].pc = pc, ![i].started = TRUE,
              ![i].cancel = FALSE]

\* How the awaited network call ends for the coroutine that resumes: r is what
\* the future holds ("ok" or "err"), unless a CancelledError is thrown instead.
Ended(t, r) == IF t.cancel THEN "cancelled" ELSE IF r = "err" THEN "failed" ELSE "ok"

\* --------------------------------------------- orchestrator: dispatch side

\* _cancel_running followed by `_running_task = None`.
cancel_running ==
    LET c == CancelTask(running_task, tasks, stasks, ready)
    IN  /\ tasks' = c.t
        /\ stasks' = c.s
        /\ ready' = c.q
        /\ running_task' = 0

\* _run(handler()): cancel the previous task, then create_task(_wrap()).
run(phase) ==
    LET c == CancelTask(running_task, tasks, stasks, ready)
        new == Len(tasks) + 1
    IN  /\ tasks' = Append(c.t, NewTask(phase))
        /\ stasks' = c.s
        /\ ready' = Append(c.q, <<"h", new>>)
        /\ running_task' = new

\* dispatch_event without its try/except: the exception leaves handle_line and
\* listen_once.
DispatchPropagates(raised) == IF raised THEN "crashed" ELSE "listening"

\* dispatch_event: `except Exception` around the awaited handler.
DispatchCatches(raised) == "listening"

\* The reader takes one line off the stream and dispatches it.
CanDispatch == reader = "listening" /\ nevents < MaxEvents

on_game_started(t) ==
    /\ CanDispatch
    /\ current_turn_id' = t
    /\ nevents' = nevents + 1
    /\ reader' = DispatchCatches(FALSE)
    /\ UNCHANGED <<running_task, in_serving, strategy_task, tasks, stasks,
                   ready, strategy_file, event_fault>>

\* Every phase name is given a handler.
HandlesAnyPhase(phase) == TRUE

\* PHASE_HANDLERS.get(phase) is not None
HasHandler(phase) == phase \in Phases

on_game_phase_changed(phase, hasTurn, t) ==
    /\ CanDispatch
    /\ current_turn_id' = IF hasTurn THEN t ELSE current_turn_id
    /\ nevents' = nevents + 1
    /\ reader' = DispatchCatches(FALSE)
    /\ IF HasHandler(phase)
          THEN run(phase) /\ UNCHANGED unknown_phases
          ELSE /\ unknown_phases' = Append(unknown_phases, running_task)
               /\ UNCHANGED <<running_task, tasks, stasks, ready>>
    /\ UNCHANGED <<in_serving, strategy_task, strategy_file, event_fault>>

on_game_reset ==
    /\ CanDispatch
    /\ current_turn_id' = 0
    /\ cancel_running
    /\ nevents' = nevents + 1
    /\ reader' = DispatchCatches(FALSE)
    /\ UNCHANGED <<in_serving, strategy_task, strategy_file, event_fault>>

\* on_message: `"try to buy:" in payload` raises TypeError when the payload is
\* not a string; badPayload is that case.
on_message(badPayload) ==
    /\ CanDispatch
    /\ nevents' = nevents + 1
    /\ reader' = DispatchCatches(badPayload)
    /\ event_fault' = (event_fault \/ badPayload)
    /\ UNCHANGED <<current_turn_id, running_task, in_serving, strategy_task,
                   tasks, stasks, ready, strategy_file>>

\* ------------------------------------------------ the network, as the loop sees it

\* The future a handler task waits for completes (with a result or an
\* exception, which the task reads when its wakeup runs).
io_done(i) ==
    /\ i \in 1..Len(tasks)
    /\ tasks[i].st = "waitio"
    /\ tasks' = [tasks EXCEPT ![i].st = "ready"]
    /\ ready' = Append(ready, <<"h", i>>)
    /\ UNCHANGED <<current_turn_id, running_task, in_serving, strategy_task,
                   stasks, strategy_file, reader, nevents, event_fault>>

\* The strategy task's network / LLM work completes.
strategy_io_done(j) ==
    /\ j \in 1..Len(stasks)
    /\ stasks[j].st = "waitio"
    /\ stasks' = [stasks EXCEPT ![j].st = "ready"]
    /\ ready' = Append(ready, <<"s", j>>)
    /\ UNCHANGED <<current_turn_id, running_task, in_serving, strategy_task,
                   tasks, strategy_file, reader, nevents, event_fault>>

\* ------------------------------------------------------ the strategy task

\* Handler tasks suspended in `await _strategy_task` on task j are woken, in
\* the order their callbacks were added, when j is done.
RECURSIVE WakeWaiters(_, _, _, _)
WakeWaiters(j, t, q, i) ==
    IF i > Len(t) THEN [t |-> t, q |-> q]
    ELSE IF t[i].st = "waitstrat" /\ t[i].awaited = j
         THEN WakeWaiters(j, [t EXCEPT ![i].st = "ready"], Append(q, <<"h", i>>), i + 1)
         ELSE WakeWaiters(j, t, q, i + 1)

\* run_strategy_agent as the task created in on_speaking.  It suspends on its
\* network / LLM calls; r is how that work ends: "targets", "empty" (an empty
\* target list) or "err".  When it returns it has written strategy.json
\* (_save_strategy_json) with the targets it returns.  A CancelledError is not
\* caught anywhere in strategy_agent.py.
run_strategy_agent(j, r) ==
    /\ ready # <<>>
    /\ Head(ready) = <<"s", j>>
    /\ LET s == stasks[j]
           oc == IF s.cancel THEN "cancelled"
                 ELSE IF r = "err" THEN "failed" ELSE r
       IN  IF s.pc = "start" /\ ~s.cancel
           THEN /\ stasks' = [stasks EXCEPT ![j].st = "waitio", ![j].pc = "work"]
                /\ ready' = Tail(ready)
                /\ UNCHANGED <<tasks, strategy_file>>
           ELSE LET w == WakeWaiters(j, tasks, Tail(ready), 1)
                IN  /\ stasks' = [stasks EXCEPT ![j].st = "done", ![j].pc = "done",
                                                ![j].cancel = FALSE,
                                                ![j].outcome = oc]
                    /\ tasks' = w.t
                    /\ ready' = w.q
                    /\ strategy_file' = IF oc \in {"targets", "empty"}
                                        THEN oc ELSE strategy_file
    /\ UNCHANGED <<current_turn_id, running_task, in_serving, strategy_task,
                   reader, nevents, event_fault>>

\* ------------------------------------------------------- the phase handlers
\* Each on_<phase>(i) is one step of task i's coroutine, from the head of the
\* ready queue to its next suspension point or its end.

\* on_speaking: start the strategy task, then await run_snapshot.
on_speaking(i, r) ==
    /\ tasks[i].phase = "speaking"
    /\ IF tasks[i].pc = "start"
       THEN LET c == CancelStrategy(strategy_task, stasks, Tail(ready))
                new == Len(stasks) + 1
            IN  /\ stasks' = Append(c.s, NewStrategyTask)
                /\ ready' = Append(c.q, <<"s", new>>)
                /\ strategy_task' = new
                /\ tasks' = Suspend(tasks, i, "snapshot")
       ELSE /\ tasks' = Finish(tasks, i, Ended(tasks[i], r))
            /\ ready' = Tail(ready)
            /\ UNCHANGED <<stasks, strategy_task>>
    /\ UNCHANGED <<in_serving, strategy_file>>

\* The plan on_closed_bid passes to run_bid_agent: the task's result when it
\* gave targets, else the targets of strategy.json, else none.
PlanSource(got, file) ==
    IF got THEN "task" ELSE IF file = "targets" THEN "file" ELSE "none"

\* on_closed_bid reading the task without awaiting it.
AwaitsStrategyNever(j, s) == FALSE

\* Whether on_closed_bid suspends in `await _strategy_task`.
AwaitsStrategy(j, s) == j # 0 /\ ~TaskDone(s[j])

\* on_closed_bid.
on_closed_bid(i, r) ==
    /\ tasks[i].phase = "closed_bid"
    /\ LET t == tasks[i] IN
       IF t.pc = "start" /\ AwaitsStrategy(strategy_task, stasks)
       THEN \* await _strategy_task
            /\ tasks' = [tasks EXCEPT ![i].st = "waitstrat", ![i].pc = "await_strategy",
                                      ![i].started = TRUE, ![i].awaited = strategy_task]
            /\ ready' = Tail(ready)
            /\ UNCHANGED strategy_task
       ELSE IF t.pc \in {"start", "await_strategy"}
       THEN \* the task's result (or the exception swallowed), then the fallback
            \* to strategy.json, then run_bid_agent up to its first network call
            LET j == IF t.pc = "start" THEN strategy_task ELSE t.awaited
                got == j # 0 /\ ~t.cancel /\ stasks[j].outcome = "targets"
            IN  /\ tasks' = [Suspend(tasks, i, "bid_prepare") EXCEPT
                                ![i].awaited = j,
                                ![i].src = PlanSource(got, strategy_file)]
                /\ ready' = Tail(ready)
                /\ strategy_task' = 0
       ELSE IF t.pc = "bid_prepare" /\ Ended(t, r) = "ok"
       THEN \* bids built; `if bids:` client.closed_bid(payload)
            /\ \E bids \in BOOLEAN :
                  tasks' = IF bids
                           THEN [Suspend(tasks, i, "bid_submit") EXCEPT ![i].submitted = TRUE]
                           ELSE Finish(tasks, i, "ok")
            /\ ready' = Tail(ready)
            /\ UNCHANGED strategy_task
       ELSE /\ tasks' = Finish(tasks, i,
                   IF t.pc = "bid_submit" /\ ~t.cancel THEN "ok" ELSE Ended(t, r))
            /\ ready' = Tail(ready)
            /\ UNCHANGED strategy_task
    /\ UNCHANGED <<stasks, in_serving, strategy_file>>

\* on_waiting: update_restaurant_is_open(True) inside try/except Exception.
on_waiting(i, r) ==
    /\ tasks[i].phase = "waiting"
    /\ tasks' = IF tasks[i].pc = "start"
                THEN Suspend(tasks, i, "open")
                ELSE Finish(tasks, i, IF tasks[i].cancel THEN "cancelled" ELSE "ok")
    /\ ready' = Tail(ready)
    /\ UNCHANGED <<stasks, strategy_task, in_serving, strategy_file>>

\* on_serving: sets the flag, then run_serving_agent: menu load, polling loop,
\* and on CancelledError inside the loop `await _set_open(False)`.
on_serving(i, r) ==
    /\ tasks[i].phase = "serving"
    /\ LET t == tasks[i] IN
       /\ tasks' = CASE t.pc = "start" -> Suspend(tasks, i, "load_menu")
                     [] t.pc = "load_menu" ->
                            IF t.cancel THEN Finish(tasks, i, "cancelled")
                            ELSE Suspend(tasks, i, "poll")
                     [] t.pc = "poll" ->
                            IF t.cancel THEN Suspend(tasks, i, "closing")
                            ELSE Suspend(tasks, i, "poll")
                     [] OTHER -> Finish(tasks, i, IF t.cancel THEN "cancelled" ELSE "ok")
       /\ in_serving' = IF t.pc = "start" THEN TRUE ELSE in_serving
    /\ ready' = Tail(ready)
    /\ UNCHANGED <<stasks, strategy_task, strategy_file>>

\* on_stopped: clears the flag, then await run_snapshot.
on_stopped(i, r) ==
    /\ tasks[i].phase = "stopped"
    /\ tasks' = IF tasks[i].pc = "start"
                THEN Suspend(tasks, i, "snapshot")
                ELSE Finish(tasks, i, Ended(tasks[i], r))
    /\ in_serving' = IF tasks[i].pc = "start" THEN FALSE ELSE in_serving
    /\ ready' = Tail(ready)
    /\ UNCHANGED <<stasks, strategy_task, strategy_file>>

\* _wrap as the task body: a task cancelled before its first step never runs
\* its coroutine; otherwise the handler runs and _wrap catches what it raises.
wrap(i, r) ==
    /\ ready # <<>>
    /\ Head(ready) = <<"h", i>>
    /\ IF tasks[i].pc = "start" /\ tasks[i].cancel
       THEN /\ tasks' = Finish(tasks, i, "cancelled")
            /\ ready' = Tail(ready)
            /\ UNCHANGED <<stasks, strategy_task, in_serving, strategy_file>>
       ELSE \/ on_speaking(i, r)
            \/ on_closed_bid(i, r)
            \/ on_waiting(i, r)
            \/ on_serving(i, r)
            \/ on_stopped(i, r)
    /\ UNCHANGED <<current_turn_id, running_task, reader, nevents, event_fault>>

\* ------------------------------------------------------------------ SpecOrch

InitOrch ==
    /\ current_turn_id = 0
    /\ running_task = 0
    /\ in_serving = FALSE
    /\ strategy_task = 0
    /\ tasks = <<>>
    /\ stasks = <<>>
    /\ ready = <<>>
    /\ strategy_file \in {"absent", "empty", "targets"}
    /\ reader = "listening"
    /\ nevents = 0
    /\ event_fault = FALSE
    /\ unknown_phases = <<>>
    /\ turn_reads = <<>>
    /\ ReaderIdle
    /\ MarketIdle
    /\ BidIdle
    /\ ServeIdle

OrchOnly == UNCHANGED <<readerVars, marketVars, bidVars, serveVars>>

\* No phase event is being ignored in this step.
NoPhaseLog == UNCHANGED unknown_phases

\* The turn ids are not being recorded in this step.
NoTurnLog == UNCHANGED turn_reads

NextOrch ==
    \/ OrchOnly /\ NoTurnLog /\ NoPhaseLog /\ \E t \in 1..MaxTurn : on_game_started(t)
    \/ OrchOnly /\ NoTurnLog /\ \E p \in Phases \cup {"unknown"}, h \in BOOLEAN, t \in 1..MaxTurn :
                                    on_game_phase_changed(p, h, t)
    \/ OrchOnly /\ NoTurnLog /\ NoPhaseLog /\ on_game_reset
    \/ OrchOnly /\ NoTurnLog /\ NoPhaseLog /\ \E b \in BOOLEAN : on_message(b)
    \/ OrchOnly /\ NoTurnLog /\ NoPhaseLog /\ \E i \in 1..Len(tasks), r \in {"ok", "err"} : wrap(i, r)
    \/ OrchOnly /\ NoTurnLog /\ NoPhaseLog /\ \E j \in 1..Len(stasks), r \in {"targets", "empty", "err"} :
                                    run_strategy_agent(j, r)
    \/ OrchOnly /\ NoTurnLog /\ NoPhaseLog /\ \E i \in 1..Len(tasks) : io_done(i)
    \/ OrchOnly /\ NoTurnLog /\ NoPhaseLog /\ \E j \in 1..Len(stasks) : strategy_io_done(j)

SpecOrch == InitOrch /\ [][NextOrch]_vars

\* ------------------------------------------------------------------ SpecTurn
\* The same event loop with two turn ids, recording for each handler task the
\* turn id of its event and the current_turn_id its handler reads.

TurnIds == 1..MaxTurnIds

\* _run(handler()) for an event whose data holds turn_id = t (hasTurn) or no
\* turn_id.
LogEvent(hasTurn, t) ==
    turn_reads' = Append(turn_reads, [event |-> IF hasTurn THEN t ELSE 0, read |-> -1])

\* on_speaking, on_serving and on_stopped pass the global current_turn_id to
\* run_snapshot / run_serving_agent in their first step.
LogRead(i) ==
    turn_reads' = IF /\ tasks[i].pc = "start"
                     /\ ~tasks[i].cancel
                     /\ tasks[i].phase \in {"speaking", "serving", "stopped"}
                  THEN [turn_reads EXCEPT ![i].read = current_turn_id]
                  ELSE turn_reads

NextTurn ==
    \/ OrchOnly /\ NoPhaseLog /\ NoTurnLog /\ \E t \in TurnIds : on_game_started(t)
    \/ OrchOnly /\ NoPhaseLog /\ \E p \in Phases, h \in BOOLEAN, t \in TurnIds :
                      on_game_phase_changed(p, h, t) /\ LogEvent(h, t)
    \/ OrchOnly /\ NoPhaseLog /\ NoTurnLog /\ on_game_reset
    \/ OrchOnly /\ NoPhaseLog /\ \E i \in 1..Len(tasks), r \in {"ok", "err"} :
                      wrap(i, r) /\ LogRead(i)
    \/ OrchOnly /\ NoPhaseLog /\ NoTurnLog
                /\ \E j \in 1..Len(stasks), r \in {"targets", "empty", "err"} :
                      run_strategy_agent(j, r)
    \/ OrchOnly /\ NoPhaseLog /\ NoTurnLog /\ \E i \in 1..Len(tasks) : io_done(i)
    \/ OrchOnly /\ NoPhaseLog /\ NoTurnLog /\ \E j \in 1..Len(stasks) : strategy_io_done(j)

SpecTurn == InitOrch /\ [][NextTurn]_vars

\* ------------------------------------------------------- the stream readers
\* A stream line is [data |-> it starts with the "data:" marker,
\*                   body |-> what remains after the marker is stripped]:
\*   ""          nothing (an empty or blank line)
\*   "connected" the server's greeting
\*   "garbage"   text json.loads rejects (JSONDecodeError)
\*   "nonobject" valid JSON that is not an object: a number, a list, a string, null
\*   "event"     a JSON object with type and data
Bodies == {"", "connected", "garbage", "nonobject", "event"}
Lines == [data : BOOLEAN, body : Bodies]

\* json.loads(text) followed by event_json.get("type") / .get("data"):
\* "decode_error" (JSONDecodeError), "attribute_error" (.get on a value that
\* is no dict), "object".
ParseEvent(body) ==
    IF body \in {"", "connected", "garbage"} THEN "decode_error"
    ELSE IF body = "nonobject" THEN "attribute_error"
    ELSE "object"

\* handle_line (hackapizza/orchestrator.py, orchestrator.py) and the loop body
\* of listen_and_route (gameorchestrator.py): "skipped" (the line is dropped),
\* "dispatched" (handed to dispatch_event / _handle_event) or "raised" (an
\* exception leaves the function).
\*   hackapizza, main: "connected" is recognised only behind the data: marker;
\*   root: with or without the marker; game: lines without marker are ignored.
HandleLine(v, line) ==
    IF line.body = "" THEN
        \* blank line; behind the marker json.loads("") is a decode error
        "skipped"
    ELSE IF v = "game" /\ ~line.data THEN "skipped"
    ELSE IF line.body = "connected" /\ (line.data \/ v = "root") THEN "skipped"
    ELSE IF ParseEvent(line.body) = "decode_error" THEN "skipped"
    ELSE IF ParseEvent(line.body) = "attribute_error" THEN "raised"
    ELSE "dispatched"

\* The loop gives up after a drop instead of sleeping and connecting again.
AfterDropGivesUp(v, how) == "exited"

\* What the reader does when the connection ends or an exception leaves
\* listen_once.  how: "close" (the server closed the stream: the async for
\* ends), "error" (aiohttp.ClientError: I/O error, or raise_for_status on a
\* non-200 status), "bug" (any other exception, e.g. out of handle_line).
\*   hackapizza: listen_once_and_exit_on_drop returns on a close and lets
\*               every exception out of main;
\*   root:       listen_loop logs, sleeps 5 s and loops in all three cases;
\*   main:       listen_with_reconnect (main.py) does the same;
\*   game:       listen_and_route prints and returns in all three cases.
AfterDrop(v, how) ==
    IF v \in {"root", "main"} THEN "sleeping"
    ELSE IF v = "game" THEN "exited"
    ELSE IF how = "close" THEN "exited" ELSE "crashed"

\* session.get(...) and the status check.
rd_connect(how) ==
    /\ reader = "connecting"
    /\ reader' = IF how = "ok" THEN "listening" ELSE AfterDrop(variant, "error")
    /\ UNCHANGED <<variant, connects, lines_read, dispatched>>

\* `async for line in response.content: await handle_line(line)`, one line.
rd_line(line) ==
    /\ reader = "listening"
    /\ lines_read < MaxLines
    /\ lines_read' = lines_read + 1
    /\ LET h == HandleLine(variant, line) IN
       /\ dispatched' = IF h = "dispatched" THEN dispatched + 1 ELSE dispatched
       /\ reader' = IF h = "raised" THEN AfterDrop(variant, "bug") ELSE "listening"
    /\ UNCHANGED <<variant, connects>>

\* The connection ends while the reader is listening.
rd_drop(how) ==
    /\ reader = "listening"
    /\ reader' = AfterDrop(variant, how)
    /\ UNCHANGED <<variant, connects, lines_read, dispatched>>

\* `await asyncio.sleep(5)` is over: the loop opens the next session.
rd_retry ==
    /\ reader = "sleeping"
    /\ connects < MaxConnects
    /\ reader' = "connecting"
    /\ connects' = connects + 1
    /\ UNCHANGED <<variant, lines_read, dispatched>>

InitReader ==
    /\ OrchIdle
    /\ MarketIdle
    /\ BidIdle
    /\ ServeIdle
    /\ variant \in {"hackapizza", "root", "main", "game"}
    /\ reader = "connecting"
    /\ connects = 1
    /\ lines_read = 0
    /\ dispatched = 0

ReaderOnly ==
    UNCHANGED <<current_turn_id, running_task, in_serving, strategy_task, tasks,
                stasks, ready, strategy_file, nevents, event_fault, unknown_phases,
                turn_reads, marketVars, bidVars, serveVars>>

NextReader ==
    \/ ReaderOnly /\ \E how \in {"ok", "error"} : rd_connect(how)
    \/ ReaderOnly /\ \E line \in Lines : rd_line(line)
    \/ ReaderOnly /\ \E how \in {"close", "error"} : rd_drop(how)
    \/ ReaderOnly /\ rd_retry

SpecReader == InitReader /\ [][NextReader]_vars

\* ------------------------------------------------------------ dicts and lots
\* A Python dict is the sequence of its <<key, value>> items in insertion
\* order, with distinct keys.
Max(a, b) == IF a >= b THEN a ELSE b
Min(a, b) == IF a <= b THEN a ELSE b

Has(d, k) == \E i \in DOMAIN d : d[i][1] = k

\* d.get(k, default)
Get(d, k, default) ==
    IF Has(d, k) THEN d[CHOOSE i \in DOMAIN d : d[i][1] = k][2] ELSE default

\* d[k] = v
Put(d, k, v) ==
    IF Has(d, k) THEN [i \in DOMAIN d |-> IF d[i][1] = k THEN <<k, v>> ELSE d[i]]
    ELSE Append(d, <<k, v>>)

RECURSIVE SumValues(_)
\* sum(d.values())
SumValues(d) == IF d = <<>> THEN 0 ELSE Head(d)[2] + SumValues(Tail(d))

IngredientList == <<"Salt", "Pepper">>
Ingredients == {IngredientList[i] : i \in DOMAIN IngredientList}

\* All dicts with keys in K and values in V.
DictsOver(K, V) ==
    {d \in UNION {[1..n -> K \X V] : n \in 0..Cardinality(K)} :
        \A i, j \in DOMAIN d : i # j => d[i][1] # d[j][1]}

\* A recipe's ingredients: every insertion order, positive quantities.
RecipeDicts == DictsOver(Ingredients, 1..MaxQty)
Recipes == [prestige : 1..MaxPrestige, ingredients : RecipeDicts]
RecipeLists == UNION {[1..n -> Recipes] : n \in 0..MaxRecipes}

\* Inventories, keys in the order of IngredientList; a key may be absent.
Inventories ==
    {d \in DictsOver(Ingredients, 0..MaxInv) :
        \A i, j \in DOMAIN d : i < j =>
            \E a, b \in DOMAIN IngredientList :
                a < b /\ IngredientList[a] = d[i][1] /\ IngredientList[b] = d[j][1]}

Balances == {5, 10}

\* explorer_data/purchased_inventory.json: absent, or the price paid at auction.
PurchasedInvs == {<<>>, <<<<"Salt", 20>>>>}

\* Market entries the server may list, in its listing order (by id).
BookLots ==
    {[id |-> 1, side |-> "SELL", ing |-> "Salt", price |-> 1, qty |-> 1],
     [id |-> 2, side |-> "SELL", ing |-> "Salt", price |-> 3, qty |-> 2],
     [id |-> 3, side |-> "SELL", ing |-> "Salt", price |-> 81, qty |-> 1],
     [id |-> 4, side |-> "SELL", ing |-> "Pepper", price |-> 1, qty |-> 1],
     [id |-> 5, side |-> "BUY", ing |-> "Salt", price |-> 1, qty |-> 1]}

RECURSIVE BookSeq(_)
\* The list get_market_entries returns for the set S of listed entries.
BookSeq(S) ==
    IF S = {} THEN <<>>
    ELSE LET first == CHOOSE e \in S : \A f \in S : e.id <= f.id
         IN <<first>> \o BookSeq(S \ {first})

\* price * quantity of every entry of the list, in tenths
RECURSIVE FullCost10(_)
FullCost10(entries) ==
    IF entries = <<>> THEN 0
    ELSE 10 * Head(entries).price * Head(entries).qty + FullCost10(Tail(entries))

\* ------------------------------------------------------- the planner functions
RECURSIVE FocusLoop(_, _, _, _, _)
\* strategy_agent.py 156-161: the loop over the focus recipe's ingredients
FocusLoop(ings, inv, copies_target, quantities, focus_ings_ordered) ==
    IF ings = <<>> THEN [quantities |-> quantities, ordered |-> focus_ings_ordered]
    ELSE LET ing == Head(ings)[1]
             total_needed == Head(ings)[2] * copies_target
             need == Max(0, total_needed - Get(inv, ing, 0))
         IN IF need > 0
            THEN FocusLoop(Tail(ings), inv, copies_target, Put(quantities, ing, need),
                           Append(focus_ings_ordered, ing))
            ELSE FocusLoop(Tail(ings), inv, copies_target, quantities, focus_ings_ordered)

\* The backup quantity with the flagship's planned quantity left out of the
\* subtraction.
BackupNeedIgnoresPlanned(total_needed, have, already) == Max(0, total_needed - have)

\* strategy_agent.py 170: what the backup recipe adds for one ingredient
BackupNeed(total_needed, have, already) == Max(0, total_needed - have - already)

RECURSIVE BackupLoop(_, _, _, _, _, _)
\* strategy_agent.py 168-174: the loop over the backup recipe's ingredients
BackupLoop(ings, inv, backup_copies, quantities, focus_ings_ordered, backup_ings_ordered) ==
    IF ings = <<>> THEN [quantities |-> quantities, ordered |-> backup_ings_ordered]
    ELSE LET ing == Head(ings)[1]
             total_needed == Head(ings)[2] * backup_copies
             need == BackupNeed(total_needed, Get(inv, ing, 0), Get(quantities, ing, 0))
         IN IF need > 0
            THEN BackupLoop(Tail(ings), inv, backup_copies,
                            Put(quantities, ing, Get(quantities, ing, 0) + need),
                            focus_ings_ordered,
                            IF \E i \in DOMAIN focus_ings_ordered : focus_ings_ordered[i] = ing
                            THEN backup_ings_ordered
                            ELSE Append(backup_ings_ordered, ing))
            ELSE BackupLoop(Tail(ings), inv, backup_copies, quantities,
                            focus_ings_ordered, backup_ings_ordered)

\* backup_recipe is <<>> (None) or <<recipe>>.
build_ingredient_quantities(focus_recipe, backup_recipe, inv, copies_target) ==
    LET f == FocusLoop(focus_recipe.ingredients, inv, copies_target, <<>>, <<>>)
        b == IF backup_recipe # <<>>
             THEN BackupLoop(backup_recipe[1].ingredients, inv, Max(1, copies_target - 1),
                             f.quantities, f.ordered, <<>>)
             ELSE [quantities |-> f.quantities, ordered |-> <<>>]
    IN [fn |-> "build_ingredient_quantities", copies |-> copies_target,
        quantities |-> b.quantities, target_ings |-> f.ordered \o b.ordered,
        primary_count |-> Len(f.ordered)]

RECURSIVE MissingOfRecipe(_, _, _, _)
\* hackapizza/market_agent.py 115-119
MissingOfRecipe(ings, inv, copies_target, missing) ==
    IF ings = <<>> THEN missing
    ELSE LET ing == Head(ings)[1]
             total_needed == Head(ings)[2] * copies_target
             have == Get(inv, ing, 0)
         IN MissingOfRecipe(Tail(ings), inv, copies_target,
                IF have < total_needed
                THEN Put(missing, ing, Max(Get(missing, ing, 0), total_needed - have))
                ELSE missing)

RECURSIVE MissingLoop(_, _, _, _)
MissingLoop(target_recipes, inv, copies_target, missing) ==
    IF target_recipes = <<>> THEN missing
    ELSE MissingLoop(Tail(target_recipes), inv, copies_target,
             MissingOfRecipe(Head(target_recipes).ingredients, inv, copies_target, missing))

compute_missing(target_recipes, inv, copies_target) ==
    [fn |-> "compute_missing", copies |-> copies_target,
     quantities |-> MissingLoop(target_recipes, inv, copies_target, <<>>),
     target_ings |-> <<>>, primary_count |-> 0]

\* hackapizza/menu_agent.py 117-120: used[ing] += qty over the menu's recipes
RECURSIVE UsedLoop(_, _)
RECURSIVE UsedOfRecipe(_, _)
UsedOfRecipe(ings, used) ==
    IF ings = <<>> THEN used
    ELSE UsedOfRecipe(Tail(ings),
             Put(used, Head(ings)[1], Get(used, Head(ings)[1], 0) + Head(ings)[2]))

UsedLoop(menu_recipes, used) ==
    IF menu_recipes = <<>> THEN used
    ELSE UsedLoop(Tail(menu_recipes), UsedOfRecipe(Head(menu_recipes).ingredients, used))

\* The leftover taken to be the whole stock, whatever the menu uses.
LeftoverIgnoresUse(qty_have, used) == qty_have

\* menu_agent.py 124
Leftover(qty_have, used) == qty_have - used

RECURSIVE SurplusLoop(_, _, _)
\* menu_agent.py 122-126
SurplusLoop(inv, used, surplus) ==
    IF inv = <<>> THEN surplus
    ELSE LET ing == Head(inv)[1]
             leftover == Leftover(Head(inv)[2], Get(used, ing, 0))
         IN SurplusLoop(Tail(inv), used,
                        IF leftover > 0 THEN Put(surplus, ing, leftover) ELSE surplus)

compute_surplus(menu_recipes, inv) ==
    [fn |-> "compute_surplus", copies |-> 0,
     quantities |-> SurplusLoop(inv, UsedLoop(menu_recipes, <<>>), <<>>),
     target_ings |-> <<>>, primary_count |-> 0]

\* ------------------------------------------------------------------ the matcher
RECURSIVE SortByPrice(_)
RECURSIVE InsertByPrice(_, _)
InsertByPrice(e, s) ==
    IF s = <<>> THEN <<e>>
    ELSE IF Head(s).price <= e.price THEN <<Head(s)>> \o InsertByPrice(e, Tail(s))
    ELSE <<e>> \o s

\* The entries left in the order the server listed them.
ListingOrder(s) == s

\* list.sort(key=price): stable
SortByPrice(s) ==
    IF s = <<>> THEN <<>>
    ELSE InsertByPrice(s[Len(s)], SortByPrice(SubSeq(s, 1, Len(s) - 1)))

\* The cost find_best_entries counts for an entry, in tenths:
\*   hackapizza/market_agent.py 156: price * entry_qty
\*   market_agent.py 96:             price * min(entry_qty, qty_left)
EntryCost10(impl, entry, qty_left) ==
    IF impl = "legacy" THEN 10 * entry.price * Min(entry.qty, qty_left)
    ELSE 10 * entry.price * entry.qty

RECURSIVE TakeEntries(_, _, _, _, _, _)
\* the inner loop `for entry in entries`
TakeEntries(impl, entries, qty_left, spent, budget, picked) ==
    IF entries = <<>> \/ qty_left <= 0 THEN [to_buy |-> picked, spent |-> spent]
    ELSE LET entry == Head(entries)
             cost == EntryCost10(impl, entry, qty_left)
         IN IF entry.price > MAX_PRICE_PER_UNIT \/ spent + cost > budget
            THEN TakeEntries(impl, Tail(entries), qty_left, spent, budget, picked)
            ELSE TakeEntries(impl, Tail(entries), qty_left - entry.qty, spent + cost,
                             budget, Append(picked, entry))

RECURSIVE MatchMissing(_, _, _, _, _, _)
\* the outer loop `for ing, qty_needed in missing.items()`
MatchMissing(impl, missing, market, budget, spent, picked) ==
    IF missing = <<>> THEN [to_buy |-> picked, spent |-> spent]
    ELSE LET ing == Head(missing)[1]
             entries == SortByPrice(SelectSeq(market,
                            LAMBDA e : e.side = "SELL" /\ e.ing = ing))
             r == TakeEntries(impl, entries, Head(missing)[2], spent, budget, picked)
         IN MatchMissing(impl, Tail(missing), market, budget, r.spent, r.to_buy)

\* hackapizza/market_agent.py: the entries to buy and the spend counted for them
find_best_entries(missing, market, budget) ==
    MatchMissing("hackapizza", missing, market, budget, 0, <<>>)

\* market_agent.py: the budget is computed inside from the balance
legacy_find_best_entries(missing, market, bal) ==
    MatchMissing("legacy", missing, market, bal * BUDGET_FRACTION10, 0, <<>>)

\* ------------------------------------------- hackapizza/market_agent.py, the run
RECURSIVE SortByPrestige(_)
RECURSIVE InsertByPrestige(_, _)
InsertByPrestige(r, s) ==
    IF s = <<>> THEN <<r>>
    ELSE IF Head(s).prestige >= r.prestige THEN <<Head(s)>> \o InsertByPrestige(r, Tail(s))
    ELSE <<r>> \o s

\* sorted(simplest_recipes, key=prestige, reverse=True): stable
SortByPrestige(s) ==
    IF s = <<>> THEN <<>>
    ELSE InsertByPrestige(s[Len(s)], SortByPrestige(SubSeq(s, 1, Len(s) - 1)))

RECURSIVE MissingForOne(_, _)
\* lines 230-233
MissingForOne(ings, vinv) ==
    IF ings = <<>> THEN <<>>
    ELSE LET ing == Head(ings)[1]
             req_qty == Head(ings)[2]
             rest == MissingForOne(Tail(ings), vinv)
         IN IF Get(vinv, ing, 0) < req_qty
            THEN <<(<<ing, req_qty - Get(vinv, ing, 0)>>)>> \o rest
            ELSE rest

\* The inventory left as it is: nothing is allocated.
SubtractNothing(ings, vinv, clip) == [inv |-> vinv, raised |-> FALSE]

RECURSIVE Subtract(_, _, _)
\* `virtual_inv[ing] -= req_qty` for every ingredient of the recipe (241-242,
\* and 249-252 where the result is clipped at 0); a key that is not in
\* virtual_inv raises KeyError.
Subtract(ings, vinv, clip) ==
    IF ings = <<>> THEN [inv |-> vinv, raised |-> FALSE]
    ELSE LET ing == Head(ings)[1]
             left == Get(vinv, ing, 0) - Head(ings)[2]
         IN IF ~Has(vinv, ing) THEN [inv |-> vinv, raised |-> TRUE]
            ELSE Subtract(Tail(ings), Put(vinv, ing, IF clip THEN Max(0, left) ELSE left),
                          clip)

RECURSIVE AllocateRecipe(_, _, _)
\* the `while True` of lines 229-255 for one recipe
AllocateRecipe(ings, vinv, tb) ==
    LET missing_for_one == MissingForOne(ings, vinv)
        total_missing == SumValues(missing_for_one)
        covered == SumValues(ings) - total_missing
    IN IF total_missing = 0 THEN
           LET s == Subtract(ings, vinv, FALSE)
           IN IF s.raised THEN [inv |-> vinv, to_buy |-> tb, raised |-> TRUE]
              ELSE AllocateRecipe(ings, s.inv, tb)
       ELSE IF Len(missing_for_one) = 1 /\ covered > 0 THEN
           LET missing_ing == missing_for_one[1][1]
               tb1 == Put(tb, missing_ing, Get(tb, missing_ing, 0) + missing_for_one[1][2])
               s == Subtract(ings, vinv, TRUE)
           IN IF s.raised THEN [inv |-> vinv, to_buy |-> tb1, raised |-> TRUE]
              ELSE AllocateRecipe(ings, s.inv, tb1)
       ELSE [inv |-> vinv, to_buy |-> tb, raised |-> FALSE]

RECURSIVE Allocate(_, _, _)
\* lines 224-255: `for recipe in sorted_recipes`
Allocate(sorted_recipes, vinv, tb) ==
    IF sorted_recipes = <<>> THEN [inv |-> vinv, to_buy |-> tb, raised |-> FALSE]
    ELSE IF Head(sorted_recipes).ingredients = <<>>
         THEN Allocate(Tail(sorted_recipes), vinv, tb)
    ELSE LET a == AllocateRecipe(Head(sorted_recipes).ingredients, vinv, tb)
         IN IF a.raised THEN a ELSE Allocate(Tail(sorted_recipes), a.inv, a.to_buy)

\* More passes than any stock of the model allows.
AllocFuel == MaxInv * Len(IngredientList) + 2

RECURSIVE RecipePasses(_, _, _)
\* The passes of the `while True` of lines 229-255 for one recipe, counted up
\* to fuel: n passes were made; ended: the loop was left, by `break` or by an
\* exception (raised); inv: virtual_inv afterwards.
RecipePasses(ings, vinv, fuel) ==
    LET missing_for_one == MissingForOne(ings, vinv)
        total_missing == SumValues(missing_for_one)
        covered == SumValues(ings) - total_missing
        allocates == total_missing = 0 \/ (Len(missing_for_one) = 1 /\ covered > 0)
        s == Subtract(ings, vinv, total_missing # 0)
        r == RecipePasses(ings, s.inv, fuel - 1)
    IN  IF fuel = 0 THEN [n |-> 0, ended |-> FALSE, raised |-> FALSE, inv |-> vinv]
        ELSE IF ~allocates THEN [n |-> 1, ended |-> TRUE, raised |-> FALSE, inv |-> vinv]
        ELSE IF s.raised THEN [n |-> 1, ended |-> TRUE, raised |-> TRUE, inv |-> vinv]
        ELSE [r EXCEPT !.n = r.n + 1]

\* What the recipe can take from the inventory: for each of its ingredients
\* the stock, at most.
RecipeStock(ings, vinv) ==
    SumValues([k \in DOMAIN ings |-> <<ings[k][1], Max(0, Get(vinv, ings[k][1], 0))>>])

RECURSIVE AllocationPasses(_, _)
\* lines 224-255, `for recipe in sorted_recipes`: whether every recipe's loop
\* was left (ended) within 1 + its stock passes (within), and virtual_inv at
\* the end.
AllocationPasses(sorted_recipes, vinv) ==
    LET ings == Head(sorted_recipes).ingredients
        p == RecipePasses(ings, vinv, AllocFuel)
        rest == AllocationPasses(Tail(sorted_recipes), p.inv)
    IN  IF sorted_recipes = <<>>
        THEN [ended |-> TRUE, within |-> TRUE, raised |-> FALSE, inv |-> vinv]
        ELSE IF ings = <<>> THEN AllocationPasses(Tail(sorted_recipes), vinv)
        ELSE IF ~p.ended \/ p.raised
        THEN [ended |-> p.ended, within |-> p.n <= 1 + RecipeStock(ings, vinv),
              raised |-> p.raised, inv |-> p.inv]
        ELSE [rest EXCEPT !.within = rest.within /\ p.n <= 1 + RecipeStock(ings, vinv)]

\* The lot offered at the price paid, without the markup.
SellAtCost(cost_paid) == IF cost_paid > 0 THEN cost_paid ELSE SELL_PRICE

\* sell_surplus, line 181: int(cost_paid * 1.05), at least 1, or the flat price
SellPrice(cost_paid) ==
    IF cost_paid > 0 THEN Max(1, (cost_paid * 105) \div 100) ELSE SELL_PRICE

RECURSIVE sell_surplus(_, _, _)
\* sell_surplus: one SELL entry per surplus item; created is the set of
\* positions whose create_market_entry call succeeded (all, in a dry run).
sell_surplus(surplus, purchased_inv, created) ==
    IF surplus = <<>> THEN <<>>
    ELSE LET n == Len(surplus)
             before == sell_surplus(SubSeq(surplus, 1, n - 1), purchased_inv, created)
             ing == surplus[n][1]
         IN IF n \in created
            THEN Append(before, [ing |-> ing, qty |-> surplus[n][2],
                                 price |-> SellPrice(Get(purchased_inv, ing, 0))])
            ELSE before

\* sell_surplus, lines 195-196: the ingredients whose create_market_entry call
\* raised, in the order of the surplus.
SellErrors(surplus, created) ==
    LET left == SelectSeq([n \in DOMAIN surplus |-> <<surplus[n][1], n \in created>>],
                          LAMBDA x : ~x[2])
    IN [k \in DOMAIN left |-> left[k][1]]

\* `for round_num in range(1, MAX_BUY_ROUNDS + 1)` with no cap.
MoreRoundsUncapped(r) == TRUE

\* `for round_num in range(1, MAX_BUY_ROUNDS + 1)`: is there a round after r?
MoreRounds(r) == r < MAX_BUY_ROUNDS

\* `to_buy[ing] -= qty_entry` without the clip at 0.
SettleUnclipped(tb, ing, qty) == Put(tb, ing, Get(tb, ing, 0) - qty)

\* The deficit left as it was when the run started.
SettleStale(tb, ing, qty) == tb

\* lines 317-319 (307-309 in a dry run, where qty = min(qty_entry, to_buy[ing])):
\* to_buy[ing] -= qty; if to_buy[ing] <= 0: to_buy[ing] = 0
Settle(tb, ing, qty) == Put(tb, ing, Max(0, Get(tb, ing, 0) - qty))

\* The run fails: an exception leaves run_market_agent.
MarketRaises ==
    /\ m_pc' = "raised"
    /\ UNCHANGED <<balance, dry_run, virtual_inv, to_buy, budget10, round_num, buy_list,
                   bought_this_round, purchased_all, sold, sell_errors, spent10,
                   committed10>>

\* run_market_agent up to the buy loop (lines 206-282): get_restaurant, the
\* target recipes (strategy.json, or find_target_recipes over the server's
\* recipes when it has none: fallback), the allocation loop, the surplus and
\* its sale, the budget.  io = "err": a request of the client raises.
market_start(dry, sell, bal, io) ==
    /\ m_pc = "idle"
    /\ UNCHANGED <<recipes, inventory, planned, fetches>>
    /\ IF io = "err" THEN MarketRaises
       ELSE \E fallback \in (IF recipes = <<>> THEN RecipeLists ELSE {<<>>}) :
            LET simplest_recipes == IF recipes # <<>> THEN recipes ELSE fallback
                a == Allocate(SortByPrestige(simplest_recipes), inventory, <<>>)
                surplus == SelectSeq(a.inv, LAMBDA kv : kv[2] > 0)
            IN IF a.raised THEN MarketRaises
               ELSE /\ balance' = bal
                    /\ dry_run' = dry
                    /\ virtual_inv' = a.inv
                    /\ to_buy' = a.to_buy
                    /\ budget10' = bal * BUDGET_FRACTION10
                    /\ \E purchased_inv \in PurchasedInvs,
                          created \in (IF ~sell THEN {{}}
                                       ELSE IF dry THEN {DOMAIN surplus}
                                       ELSE SUBSET DOMAIN surplus) :
                          /\ sold' = sell_surplus(surplus, purchased_inv, created)
                          /\ sell_errors' = IF sell THEN SellErrors(surplus, created)
                                            ELSE <<>>
                    /\ IF a.to_buy = <<>>
                       THEN m_pc' = "done" /\ round_num' = 0
                       ELSE m_pc' = "round" /\ round_num' = 1
                    /\ UNCHANGED <<buy_list, bought_this_round, purchased_all,
                                   spent10, committed10>>

\* One round up to the first transaction (lines 284-294): the market is
\* fetched and matched.  book is the set of entries the server lists.
market_round(book, io) ==
    /\ m_pc = "round"
    /\ fetches' = fetches + 1
    /\ UNCHANGED <<recipes, inventory, planned>>
    /\ IF io = "err" THEN MarketRaises
       ELSE LET r == find_best_entries(to_buy, BookSeq(book), budget10)
            IN /\ spent10' = r.spent
               /\ buy_list' = r.to_buy
               /\ m_pc' = IF r.to_buy = <<>> THEN "done" ELSE "exec"
               /\ UNCHANGED <<balance, dry_run, virtual_inv, to_buy, budget10, round_num,
                              bought_this_round, purchased_all, sold, sell_errors,
                              committed10>>

\* The entry counted as bought although its transaction raised.
AcquiredWhatever(dry, ok) == TRUE

\* lines 304-322: a dry run counts the entry without any request; a real run
\* counts it when execute_transaction returned.
Acquired(dry, ok) == dry \/ ok

\* One entry of buy_list (lines 295-322) and, after the last one, the end of
\* the round (324-329).  ok: execute_transaction returned, else it raised.
market_exec(ok) ==
    /\ m_pc = "exec"
    /\ LET entry == Head(buy_list)
           ing == entry.ing
           skip == Get(to_buy, ing, 0) <= 0
           bought == ~skip /\ Acquired(dry_run, ok)
           qty_act == IF dry_run THEN Min(entry.qty, Get(to_buy, ing, 0)) ELSE entry.qty
           tb == IF bought THEN Settle(to_buy, ing, qty_act) ELSE to_buy
           budget == IF bought THEN budget10 - 10 * entry.price * entry.qty ELSE budget10
           bought_now == IF bought THEN Append(bought_this_round, entry)
                         ELSE bought_this_round
           last == Tail(buy_list) = <<>>
       IN /\ to_buy' = tb
          /\ budget10' = budget
          /\ virtual_inv' = IF bought /\ ~dry_run
                            THEN Put(virtual_inv, ing, Get(virtual_inv, ing, 0) + entry.qty)
                            ELSE virtual_inv
          /\ committed10' = IF bought THEN committed10 + 10 * entry.price * entry.qty
                            ELSE committed10
          /\ failed' = IF ~skip /\ ~dry_run /\ ~ok THEN failed \cup {entry.id} ELSE failed
          /\ buy_list' = Tail(buy_list)
          /\ bought_this_round' = IF last THEN <<>> ELSE bought_now
          /\ purchased_all' = IF last THEN purchased_all \o bought_now ELSE purchased_all
          /\ IF ~last THEN m_pc' = "exec" /\ round_num' = round_num
             ELSE IF bought_now = <<>> \/ budget <= 10 \/ ~MoreRounds(round_num)
                  THEN m_pc' = "done" /\ round_num' = round_num
             ELSE m_pc' = "round" /\ round_num' = round_num + 1
    /\ UNCHANGED <<recipes, inventory, balance, planned, dry_run, sold, sell_errors,
                   fetches, spent10>>

\* The planner functions applied to the target recipes and the inventory.
plan_quantities(copies_target) ==
    /\ m_pc = "idle"
    /\ recipes # <<>>
    /\ planned' = build_ingredient_quantities(recipes[1],
                    IF Len(recipes) >= 2 THEN <<recipes[2]>> ELSE <<>>,
                    inventory, copies_target)
    /\ m_pc' = "planned"
    /\ UNCHANGED <<recipes, inventory, balance, dry_run, virtual_inv, to_buy, budget10,
                   round_num, buy_list, bought_this_round, purchased_all, sold,
                   sell_errors, fetches, spent10, committed10>>

plan_missing(copies_target) ==
    /\ m_pc = "idle"
    /\ planned' = compute_missing(recipes, inventory, copies_target)
    /\ m_pc' = "planned"
    /\ UNCHANGED <<recipes, inventory, balance, dry_run, virtual_inv, to_buy, budget10,
                   round_num, buy_list, bought_this_round, purchased_all, sold,
                   sell_errors, fetches, spent10, committed10>>

\* menu_agent.py 230: compute_surplus applied to the chosen recipes and the
\* inventory.
plan_surplus ==
    /\ m_pc = "idle"
    /\ planned' = compute_surplus(recipes, inventory)
    /\ m_pc' = "planned"
    /\ UNCHANGED <<recipes, inventory, balance, dry_run, virtual_inv, to_buy, budget10,
                   round_num, buy_list, bought_this_round, purchased_all, sold,
                   sell_errors, fetches, spent10, committed10>>

InitMarket ==
    /\ OrchIdle
    /\ ServeIdle
    /\ reader = "listening"
    /\ ReaderIdle
    /\ recipes \in RecipeLists
    /\ inventory \in Inventories
    /\ MarketRunIdle
    /\ BidIdle

MarketOnly == UNCHANGED <<orchVars, readerVars, bidVars, serveVars>>

\* No transaction is requested in this step.
NoAttempt == UNCHANGED failed

NextMarket ==
    \/ MarketOnly /\ NoAttempt /\ \E dry \in BOOLEAN, sell \in BOOLEAN, bal \in Balances,
                        io \in {"ok", "err"} : market_start(dry, sell, bal, io)
    \/ MarketOnly /\ NoAttempt /\ \E book \in SUBSET BookLots : market_round(book, "ok")
    \/ MarketOnly /\ NoAttempt /\ market_round({}, "err")
    \/ MarketOnly /\ \E ok \in BOOLEAN : market_exec(ok)
    \/ MarketOnly /\ NoAttempt /\ \E c \in 0..MaxCopies : plan_quantities(c)
    \/ MarketOnly /\ NoAttempt /\ \E c \in 0..MaxCopies : plan_missing(c)
    \/ MarketOnly /\ NoAttempt /\ plan_surplus

SpecMarket == InitMarket /\ [][NextMarket]_vars

\* ------------------------------------------------------ market_agent.py, the run
RECURSIVE LegacyMissingOfRecipe(_, _, _)
\* market_agent.py 56-59: missing[ing] += qty_needed - have
LegacyMissingOfRecipe(ings, inv, missing) ==
    IF ings = <<>> THEN missing
    ELSE LET ing == Head(ings)[1]
             qty_needed == Head(ings)[2]
             have == Get(inv, ing, 0)
         IN LegacyMissingOfRecipe(Tail(ings), inv,
                IF have < qty_needed
                THEN Put(missing, ing, Get(missing, ing, 0) + qty_needed - have)
                ELSE missing)

RECURSIVE legacy_compute_missing(_, _, _)
\* market_agent.py compute_missing over the menu's recipes (a menu name that
\* is no recipe is skipped)
legacy_compute_missing(menu_recipes, inv, missing) ==
    IF menu_recipes = <<>> THEN missing
    ELSE legacy_compute_missing(Tail(menu_recipes), inv,
             LegacyMissingOfRecipe(Head(menu_recipes).ingredients, inv, missing))

\* explorer_data/surplus_ingredients.json as load_surplus reads it
SurplusFiles == {<<>>, <<<<"Pepper", 1>>>>}

\* market_agent.py 196-197: the surplus file is sold at SELL_PRICE
LegacySale(sale) ==
    \E surplus \in SurplusFiles :
        \E created \in (IF dry_run' THEN {DOMAIN surplus} ELSE SUBSET DOMAIN surplus) :
            /\ sale = sell_surplus(surplus, <<>>, created)
            /\ sell_errors' = SellErrors(surplus, created)

\* recipes is the menu.  run_market_agent up to the first transaction (lines
\* 151-180): restaurant, menu, recipes, compute_missing, the market, the match.
legacy_start(dry, bal, book, io) ==
    /\ m_pc = "idle"
    /\ UNCHANGED <<recipes, inventory, planned>>
    /\ IF io = "err" THEN MarketRaises /\ UNCHANGED fetches
       ELSE LET missing == legacy_compute_missing(recipes, inventory, <<>>)
                r == IF missing = <<>> THEN [to_buy |-> <<>>, spent |-> 0]
                     ELSE legacy_find_best_entries(missing, BookSeq(book), bal)
            IN /\ balance' = bal
               /\ dry_run' = dry
               /\ to_buy' = missing
               /\ budget10' = bal * BUDGET_FRACTION10
               /\ fetches' = IF missing = <<>> THEN 0 ELSE 1
               /\ buy_list' = r.to_buy
               /\ spent10' = r.spent
               /\ IF r.to_buy = <<>>
                  THEN m_pc' = "done" /\ LegacySale(sold')
                  ELSE m_pc' = "exec" /\ sold' = sold /\ sell_errors' = sell_errors
               /\ UNCHANGED <<virtual_inv, round_num, bought_this_round, purchased_all,
                              committed10>>

\* One entry of the list to buy (lines 181-194) and, after the last one, the
\* sale of the surplus.
legacy_exec(ok) ==
    /\ m_pc = "exec"
    /\ LET entry == Head(buy_list)
           bought == dry_run \/ ok
       IN /\ purchased_all' = IF bought THEN Append(purchased_all, entry) ELSE purchased_all
          /\ committed10' = IF bought THEN committed10 + 10 * entry.price * entry.qty
                            ELSE committed10
          /\ failed' = IF bought THEN failed ELSE failed \cup {entry.id}
          /\ buy_list' = Tail(buy_list)
          /\ dry_run' = dry_run
          /\ IF Tail(buy_list) = <<>>
             THEN m_pc' = "done" /\ LegacySale(sold')
             ELSE m_pc' = "exec" /\ sold' = sold /\ sell_errors' = sell_errors
    /\ UNCHANGED <<recipes, inventory, balance, planned, virtual_inv, to_buy, budget10,
                   round_num, bought_this_round, fetches, spent10>>

\* The menu's recipes: their prestige plays no part in this run.
InitLegacyMarket ==
    /\ OrchIdle
    /\ ServeIdle
    /\ reader = "listening"
    /\ ReaderIdle
    /\ recipes \in {l \in RecipeLists : \A i \in DOMAIN l : l[i].prestige = 1}
    /\ inventory \in Inventories
    /\ MarketRunIdle
    /\ BidIdle

NextLegacyMarket ==
    \/ MarketOnly /\ NoAttempt /\ \E dry \in BOOLEAN, bal \in Balances,
                                      book \in SUBSET BookLots :
                        legacy_start(dry, bal, book, "ok")
    \/ MarketOnly /\ NoAttempt /\ legacy_start(FALSE, 0, {}, "err")
    \/ MarketOnly /\ \E ok \in BOOLEAN : legacy_exec(ok)

SpecLegacyMarket == InitLegacyMarket /\ [][NextLegacyMarket]_vars

\* ------------------------------------------------ the matcher as a function
\* find_best_entries of both files applied to a deficit, an order book and a
\* budget.  The order books add to BookLots a lot whose unit price lies
\* between the others' and whose full cost is the highest.
MatchLots ==
    BookLots \cup {[id |-> 6, side |-> "SELL", ing |-> "Salt", price |-> 2, qty |-> 4]}

\* A deficit of one run: up to MaxQty for each of up to MaxRecipes recipes.
MatchDeficits == DictsOver(Ingredients, 0..(MaxQty * MaxRecipes))

InitMatch ==
    /\ OrchIdle
    /\ ServeIdle
    /\ reader = "listening"
    /\ ReaderIdle
    /\ BidIdle
    /\ recipes = <<>>
    /\ inventory = <<>>
    /\ balance \in Balances
    /\ m_pc = "idle"
    /\ planned = NoPlan
    /\ dry_run = FALSE
    /\ virtual_inv = <<>>
    /\ to_buy \in MatchDeficits
    /\ budget10 = balance * BUDGET_FRACTION10
    /\ round_num = 0
    /\ buy_list = <<>>
    /\ bought_this_round = <<>>
    /\ purchased_all = <<>>
    /\ sold = <<>>
    /\ sell_errors = <<>>
    /\ fetches = 0
    /\ spent10 = 0
    /\ committed10 = 0
    /\ failed = {}

\* to_buy = find_best_entries(missing, market, budget) in hackapizza/market_agent.py
\* (impl = "hackapizza") or in market_agent.py (impl = "legacy")
match(impl, book) ==
    /\ m_pc = "idle"
    /\ LET r == MatchMissing(impl, to_buy, BookSeq(book), budget10, 0, <<>>)
       IN /\ buy_list' = r.to_buy
          /\ spent10' = r.spent
    /\ m_pc' = "matched"
    /\ UNCHANGED <<recipes, inventory, balance, planned, dry_run, virtual_inv, to_buy,
                   budget10, round_num, bought_this_round, purchased_all, sold,
                   sell_errors, fetches, committed10, failed>>

NextMatch ==
    MarketOnly /\ \E impl \in {"hackapizza", "legacy"}, book \in SUBSET MatchLots :
                      match(impl, book)

SpecMatch == InitMatch /\ [][NextMatch]_vars

\* --------------------------------------------------- hackapizza/bid_agent.py
\* A bid is [ingredient, quantity, bid].  Amounts that the code computes in
\* floating point are computed here in exact integer arithmetic.

\* int(n / d) for d > 0: truncation toward zero
Trunc(n, d) == IF n >= 0 THEN n \div d ELSE -((-n) \div d)

\* The hint itself as the bid, without the margin.
BidAtHint(hints, ing) == IF Get(hints, ing, 0) # 0 THEN Get(hints, ing, 0) ELSE DEFAULT_BID

\* max(1, int(hint * 1.05)) if hint else DEFAULT_BID
BidPerUnit(hints, ing) ==
    LET hint == Get(hints, ing, 0)
    IN IF hint # 0 THEN Max(1, Trunc(hint * 105, 100)) ELSE DEFAULT_BID

RECURSIVE ScaleCost(_, _)
\* cost_per_copy * copies_target: the sum of qty * estimated unit price
ScaleCost(quantities, hints) ==
    IF quantities = <<>> THEN 0
    ELSE Head(quantities)[2] * BidPerUnit(hints, Head(quantities)[1])
         + ScaleCost(Tail(quantities), hints)

_budget_scale_quantities(quantities, copies, bal, hints) ==
    IF copies <= 0 \/ quantities = <<>> THEN quantities
    ELSE LET cost == ScaleCost(quantities, hints)
         IN IF cost <= 0 THEN quantities
            ELSE LET demand_cap == MAX_COPIES_TO_STOCK \div copies
                     budget_cap == Trunc(bal * BID_BUDGET_FRACTION10, 10 * cost)
                     scale == Max(1, Min(Min(demand_cap, budget_cap), MAX_SCALE))
                 IN IF scale <= 1 THEN quantities
                    ELSE [i \in DOMAIN quantities |->
                             <<quantities[i][1], quantities[i][2] * scale>>]

\* A bid for every entry of the dict, whatever its quantity.
BidsForAllEntries(quantities, hints) ==
    [i \in DOMAIN quantities |->
        [ingredient |-> quantities[i][1], quantity |-> quantities[i][2],
         bid |-> BidPerUnit(hints, quantities[i][1])]]

RECURSIVE build_bids_from_quantities(_, _)
build_bids_from_quantities(quantities, hints) ==
    IF quantities = <<>> THEN <<>>
    ELSE LET ing == Head(quantities)[1]
             qty == Head(quantities)[2]
             rest == build_bids_from_quantities(Tail(quantities), hints)
         IN IF qty <= 0 THEN rest
            ELSE <<[ingredient |-> ing, quantity |-> qty,
                    bid |-> BidPerUnit(hints, ing)]>> \o rest

\* min(MAX_BUDGET, float(balance) * BUDGET_FRACTION), in tenths
BidBudget10(bal) == Min(10 * MAX_BUDGET, bal * BID_BUDGET_FRACTION10)

\* _bid_for, with budget_share = share_num / share_den
LegacyBidFor(hints, ing, share_num, share_den) ==
    LET hint == Get(hints, ing, 0)
    IN [ingredient |-> ing, quantity |-> 1,
        bid |-> IF hint # 0 THEN Max(1, Trunc(hint * 105, 100))
                ELSE Max(DEFAULT_BID, Trunc(share_num, share_den))]

build_bids_legacy(ingredients, bal, primary, hints) ==
    IF ingredients = <<>> \/ bal <= 0 THEN <<>>
    ELSE LET budget == BidBudget10(bal)
             chosen == SubSeq(ingredients, 1, Min(MAX_INGREDIENTS, Len(ingredients)))
             n_primary == Min(primary, Len(chosen))
             n_secondary == Len(chosen) - n_primary
         IN IF n_primary > 0
            THEN [i \in DOMAIN chosen |->
                    IF i <= n_primary
                    THEN LegacyBidFor(hints, chosen[i], budget * 70, 1000 * n_primary)
                    ELSE LegacyBidFor(hints, chosen[i], budget * 30, 1000 * n_secondary)]
            ELSE [i \in DOMAIN chosen |->
                    LegacyBidFor(hints, chosen[i], budget, 10 * Len(chosen))]

RECURSIVE CostPerStock(_, _)
\* bid_agent.py 182-187
CostPerStock(ings, hints) ==
    IF ings = <<>> THEN 0
    ELSE BidPerUnit(hints, Head(ings)[1]) * Head(ings)[2] + CostPerStock(Tail(ings), hints)

RECURSIVE AddStock(_, _, _, _)
\* bid_agent.py 197-212: the recipe's ingredients merged into bids_map
AddStock(ings, stocks_to_buy, hints, bids_map) ==
    IF ings = <<>> THEN bids_map
    ELSE LET ing == Head(ings)[1]
             total_qty == Head(ings)[2] * stocks_to_buy
             bid_per_unit == BidPerUnit(hints, ing)
             old == Get(bids_map, ing, [quantity |-> 0, bid |-> 0])
         IN AddStock(Tail(ings), stocks_to_buy, hints,
                IF Has(bids_map, ing)
                THEN Put(bids_map, ing, [quantity |-> old.quantity + total_qty,
                                         bid |-> Max(old.bid, bid_per_unit)])
                ELSE Put(bids_map, ing, [quantity |-> total_qty, bid |-> bid_per_unit]))

RECURSIVE StockRecipes(_, _, _, _)
\* bid_agent.py 177-212: the loop over the recipes; the budget of one recipe is
\* budget10 / (10 * n)
StockRecipes(rs, budget, n, hints) ==
    IF rs = <<>> THEN <<>>
    ELSE LET ings == rs[Len(rs)].ingredients
             before == StockRecipes(SubSeq(rs, 1, Len(rs) - 1), budget, n, hints)
             cost_per_stock == CostPerStock(ings, hints)
             stocks_to_buy == Max(1, IF cost_per_stock > 0
                                     THEN budget \div (10 * n * cost_per_stock)
                                     ELSE 0)
         IN IF ings = <<>> THEN before
            ELSE AddStock(ings, stocks_to_buy, hints, before)

RECURSIVE SortBySize(_)
RECURSIVE InsertBySize(_, _)
\* bids.sort(key=lambda x: -(x["quantity"] * x["bid"])), a stable sort
InsertBySize(b, sorted) ==
    IF sorted = <<>> THEN <<b>>
    ELSE IF Head(sorted).quantity * Head(sorted).bid >= b.quantity * b.bid
         THEN <<Head(sorted)>> \o InsertBySize(b, Tail(sorted))
         ELSE <<b>> \o sorted

SortBySize(bs) ==
    IF bs = <<>> THEN <<>>
    ELSE InsertBySize(bs[Len(bs)], SortBySize(SubSeq(bs, 1, Len(bs) - 1)))

build_bids_from_recipes(rs, bal, hints) ==
    IF rs = <<>> \/ bal <= 0 THEN <<>>
    ELSE LET bids_map == StockRecipes(rs, BidBudget10(bal), Len(rs), hints)
         IN SortBySize([i \in DOMAIN bids_map |->
                           [ingredient |-> bids_map[i][1],
                            quantity |-> bids_map[i][2].quantity,
                            bid |-> bids_map[i][2].bid]])

RECURSIVE _add_opportunistic_bids(_, _)
_add_opportunistic_bids(main_bids, all_ingredients) ==
    IF all_ingredients = <<>> THEN main_bids
    ELSE LET ing == all_ingredients[Len(all_ingredients)]
             before == _add_opportunistic_bids(main_bids,
                           SubSeq(all_ingredients, 1, Len(all_ingredients) - 1))
         IN IF \E i \in DOMAIN main_bids : main_bids[i].ingredient = ing
            THEN before
            ELSE Append(before, [ingredient |-> ing, quantity |-> OPPORTUNISTIC_QTY,
                                 bid |-> OPPORTUNISTIC_BID])

\* sum of quantity * bid over the bids
RECURSIVE PlannedSpend(_)
PlannedSpend(bs) ==
    IF bs = <<>> THEN 0
    ELSE Head(bs).quantity * Head(bs).bid + PlannedSpend(Tail(bs))

\* Dicts whose keys come in the order of IngredientList.
InListOrder(d) ==
    \A i, j \in DOMAIN d : i < j =>
        \E a, b \in DOMAIN IngredientList :
            a < b /\ IngredientList[a] = d[i][1] /\ IngredientList[b] = d[j][1]

\* price hints are the analyst's recommended_bid: integers >= 1
HintValues == {1, 30}
HintDicts == {d \in DictsOver(Ingredients, HintValues) : InListOrder(d)}
\* ingredient_quantities of strategy.json: a quantity may be zero or negative
BidQuantities == DictsOver(Ingredients, (-1)..MaxQty)
BidBalances == {-5, 0, 50, 1000}
\* Lists of distinct ingredients, in every order.
IngredientSeqs == {[i \in DOMAIN d |-> d[i][1]] : d \in DictsOver(Ingredients, {0})}
\* lista_completa_ingredienti.txt: absent, or the game's ingredients
AllIngredientFiles == {<<>>, <<"Salt", "Pepper", "Basil">>}

\* explorer_data/strategy.json as run_bid_agent reads it; copies is <<>> when
\* int(strat.get("copies_target", 3)) raises, else <<the integer>>.
NoStrategy(state) ==
    [state |-> state, price_hints |-> <<>>, ingredient_quantities |-> <<>>,
     simplest_recipes |-> <<>>, copies |-> <<3>>]

StrategyFiles ==
    {NoStrategy("absent"), NoStrategy("bad")}
    \cup [state : {"ok"}, price_hints : HintDicts,
          ingredient_quantities : BidQuantities \ {<<>>},
          simplest_recipes : {<<>>},
          copies : {<<>>} \cup {<<c>> : c \in 0..MaxCopies}]
    \cup [state : {"ok"}, price_hints : HintDicts,
          ingredient_quantities : {<<>>},
          simplest_recipes : RecipeLists,
          copies : {<<3>>}]

\* The calls of run_bid_agent: the arguments are read on the legacy path only.
LegacyFiles ==
    {f \in StrategyFiles : f.ingredient_quantities = <<>> /\ f.simplest_recipes = <<>>}

BidCalls ==
    [file : StrategyFiles \ LegacyFiles, preferred : {<<>>}, primary : {0}]
    \cup [file : LegacyFiles,
          preferred : {<<>>} \cup {<<l>> : l \in IngredientSeqs},
          primary : 0..Cardinality(Ingredients)]

\* bid_agent.py 229-253: the strategy file is read
bid_load(call) ==
    /\ b_pc = "idle"
    /\ b_pc' = "loaded"
    /\ b_price_hints' = call.file.price_hints
    /\ b_quantities' = call.file.ingredient_quantities
    /\ b_recipes' = call.file.simplest_recipes
    /\ b_copies_target' = IF call.file.copies = <<>> THEN 3 ELSE call.file.copies[1]
    /\ b_preferred' = call.preferred
    /\ b_primary_count' = call.primary
    /\ UNCHANGED <<b_balance, bid_path, bids_before, bid_list, bid_payload>>

\* bid_agent.py 255-295: get_restaurant, the bids of the path taken, the
\* opportunistic bids, bid_list.json.  io tells which request raises, fetched
\* is the ingredient list built from get_recipes.
bid_build(bal, io, fetched, all_ingredients) ==
    /\ b_pc = "loaded"
    /\ b_balance' = IF io = "err_restaurant" THEN b_balance ELSE bal
    /\ LET path == IF b_quantities # <<>> THEN "quantities"
                   ELSE IF b_recipes # <<>> THEN "recipes" ELSE "legacy"
           raises == \/ io = "err_restaurant"
                     \/ io = "err_recipes" /\ path = "legacy" /\ b_preferred = <<>>
           main == IF path = "quantities"
                   THEN build_bids_from_quantities(
                            _budget_scale_quantities(b_quantities, b_copies_target,
                                                     bal, b_price_hints),
                            b_price_hints)
                   ELSE IF path = "recipes"
                   THEN build_bids_from_recipes(b_recipes, bal, b_price_hints)
                   ELSE build_bids_legacy(IF b_preferred = <<>> THEN fetched
                                          ELSE b_preferred[1],
                                          bal, b_primary_count, b_price_hints)
       IN IF raises
          THEN /\ b_pc' = "raised"
               /\ UNCHANGED <<bid_path, bids_before, bid_list>>
          ELSE /\ b_pc' = "built"
               /\ bid_path' = path
               /\ bids_before' = Len(main)
               /\ bid_list' = _add_opportunistic_bids(main, all_ingredients)
    /\ UNCHANGED <<b_price_hints, b_quantities, b_recipes, b_copies_target,
                   b_preferred, b_primary_count, bid_payload>>

\* bid_agent.py 302-312: `if bids:` the batch goes to client.closed_bid, whose
\* failure is printed and swallowed.
bid_submit ==
    /\ b_pc = "built"
    /\ b_pc' = "done"
    /\ bid_payload' = IF bid_list # <<>> THEN Append(bid_payload, bid_list)
                      ELSE bid_payload
    /\ UNCHANGED <<b_price_hints, b_quantities, b_recipes, b_copies_target,
                   b_preferred, b_primary_count, b_balance, bid_path, bids_before,
                   bid_list>>

InitBid ==
    /\ OrchIdle
    /\ ServeIdle
    /\ reader = "listening"
    /\ ReaderIdle
    /\ MarketIdle
    /\ BidIdle

BidOnly == UNCHANGED <<orchVars, readerVars, marketVars, serveVars>>

NextBid ==
    \/ BidOnly /\ b_pc = "idle" /\ \E call \in BidCalls : bid_load(call)
    \/ BidOnly /\ \E bal \in BidBalances, fetched \in IngredientSeqs,
                     all_ingredients \in AllIngredientFiles :
                     bid_build(bal, "ok", fetched, all_ingredients)
    \/ BidOnly /\ \E io \in {"err_restaurant", "err_recipes"} :
                     bid_build(0, io, <<>>, <<>>)
    \/ BidOnly /\ bid_submit

SpecBid == InitBid /\ [][NextBid]_vars

\* ------------------------------------------------ hackapizza/serving_agent.py
\* One coroutine step is one action: from a resumption to the next await that
\* suspends.  The stream reader awaits each event's handler, so it dispatches
\* no event while sv_reader.pc # "idle"; a line that is already buffered is
\* dispatched before any task scheduled meanwhile has run.  Task.cancel() takes
\* effect at the await the task is suspended in: a cancelled polling task
\* changes nothing of the module state afterwards.

ClientNames == {"ann", "bob"}

\* The dishes get_menu returns.
Menu == {"pizza"}

\* A client's order text, reduced to the dish it names.
OrderText(name) == "pizza"

\* _match_dish: the menu's dish the order text names, "" for None.
match_dish(order_text, menu) == IF order_text \in menu THEN order_text ELSE ""

\* handle_new_client up to `await client.prepare_dish(dish)`: the module state
\* afterwards and the dish requested, "" when it returned without a request.
handle_new_client(name, seen, pending, menu) ==
    IF name \in seen THEN [seen |-> seen, pending |-> pending, dish |-> ""]
    ELSE LET dish == match_dish(OrderText(name), menu)
         IN  [seen |-> seen \cup {name},
              pending |-> IF dish = "" THEN pending ELSE pending \cup {name},
              dish |-> dish]

RECURSIVE PollLoop(_, _, _, _)
\* The polling loop's `for meal in meals` up to the handle_new_client call that
\* suspends (cur, todo: the meals still to visit) or to the end of the list.
PollLoop(todo, seen, pending, menu) ==
    IF todo = <<>>
    THEN [seen |-> seen, pending |-> pending, cur |-> "", todo |-> <<>>]
    ELSE LET cname == Head(todo)
             h == handle_new_client(cname, seen, pending, menu)
         IN  IF cname \in seen THEN PollLoop(Tail(todo), seen, pending, menu)
             ELSE IF h.dish = "" THEN PollLoop(Tail(todo), h.seen, h.pending, menu)
             ELSE [seen |-> h.seen, pending |-> h.pending, cur |-> cname,
                   todo |-> Tail(todo)]

\* prepare_dish returns (the client joins the dish's queue) or raises (the
\* client is forgotten): _dish_queue and _pending_clients afterwards.
PrepareReturns(name, accepted) ==
    LET dish == OrderText(name)
    IN  /\ dish_queue' = IF accepted
                         THEN Put(dish_queue, dish,
                                  Append(Get(dish_queue, dish, <<>>), name))
                         ELSE dish_queue
        /\ pending_clients' = IF accepted THEN pending_clients
                              ELSE pending_clients \ {name}

\* The prepare_dish request leaves; accepted: the server starts the dish.
Request(name, accepted) ==
    /\ prepared' = Append(prepared, name)
    /\ cooking' = IF accepted THEN Append(cooking, OrderText(name)) ELSE cooking

NoTask == [kind |-> "none", pc |-> "done", todo |-> <<>>, cur |-> "", accepted |-> FALSE]

IdleReader == [pc |-> "idle", cur |-> "", accepted |-> FALSE]

\* on_serving and run_serving_agent, one step of the task.  r: how the awaited
\* request ended; acc: what the server does with a prepare_dish request sent.
run_serving_agent(r, acc) ==
    /\ sv_task.kind = "serving"
    /\ UNCHANGED <<sv_reader, meals, sse_pos, assigned, sv_events>>
    /\ CASE sv_task.pc = "created" ->
              /\ in_serving' = TRUE
              /\ seen_clients' = {}
              /\ dish_queue' = <<>>
              /\ pending_clients' = {}
              /\ menu_names' = {}
              /\ sv_task' = [sv_task EXCEPT !.pc = "get_menu"]
              /\ UNCHANGED <<prepared, cooking>>
         [] sv_task.pc = "get_menu" ->
              /\ menu_names' = IF r = "ok" THEN Menu ELSE menu_names
              /\ sv_task' = [sv_task EXCEPT !.pc = IF r = "ok" THEN "get_recipes"
                                                   ELSE "sleep"]
              /\ UNCHANGED <<in_serving, seen_clients, dish_queue, pending_clients,
                             prepared, cooking>>
         [] sv_task.pc \in {"get_recipes", "sleep"} ->
              /\ sv_task' = [sv_task EXCEPT !.pc = IF sv_task.pc = "sleep"
                                                   THEN "get_meals" ELSE "sleep"]
              /\ UNCHANGED <<in_serving, seen_clients, dish_queue, pending_clients,
                             menu_names, prepared, cooking>>
         [] sv_task.pc = "get_meals" /\ r = "err" ->
              /\ sv_task' = [sv_task EXCEPT !.pc = "sleep"]
              /\ UNCHANGED <<in_serving, seen_clients, dish_queue, pending_clients,
                             menu_names, prepared, cooking>>
         [] sv_task.pc = "get_meals" /\ r = "ok" ->
              LET l == PollLoop(meals, seen_clients, pending_clients, menu_names)
              IN  /\ seen_clients' = l.seen
                  /\ pending_clients' = l.pending
                  /\ IF l.cur = ""
                     THEN /\ sv_task' = [sv_task EXCEPT !.pc = "sleep"]
                          /\ UNCHANGED <<prepared, cooking>>
                     ELSE /\ sv_task' = [sv_task EXCEPT !.pc = "prepare", !.cur = l.cur,
                                                        !.todo = l.todo, !.accepted = acc]
                          /\ Request(l.cur, acc)
                  /\ UNCHANGED <<in_serving, dish_queue, menu_names>>
         [] sv_task.pc = "prepare" ->
              LET pend == IF sv_task.accepted THEN pending_clients
                          ELSE pending_clients \ {sv_task.cur}
                  l == PollLoop(sv_task.todo, seen_clients, pend, menu_names)
              IN  /\ dish_queue' = IF sv_task.accepted
                                   THEN Put(dish_queue, OrderText(sv_task.cur),
                                            Append(Get(dish_queue, OrderText(sv_task.cur),
                                                       <<>>), sv_task.cur))
                                   ELSE dish_queue
                  /\ seen_clients' = l.seen
                  /\ pending_clients' = l.pending
                  /\ IF l.cur = ""
                     THEN /\ sv_task' = [NoTask EXCEPT !.kind = "serving", !.pc = "sleep"]
                          /\ UNCHANGED <<prepared, cooking>>
                     ELSE /\ sv_task' = [sv_task EXCEPT !.cur = l.cur, !.todo = l.todo,
                                                        !.accepted = acc]
                          /\ Request(l.cur, acc)
                  /\ UNCHANGED <<in_serving, menu_names>>

\* A reader that takes the next line while a handler is still suspended.
ReaderFreeAlways == TRUE

\* listen_once: `await handle_line(line)` inside `async for line`: the next
\* line is taken only when the handler of the previous event has returned.
ReaderFree == sv_reader.pc = "idle"

\* on_stopped's first step: `_in_serving = False`.
sv_stopped ==
    /\ sv_task.kind = "stopped"
    /\ sv_task.pc = "created"
    /\ in_serving' = FALSE
    /\ sv_task' = NoTask
    /\ UNCHANGED <<seen_clients, dish_queue, pending_clients, menu_names, sv_reader,
                   meals, sse_pos, cooking, prepared, assigned, sv_events>>

\* A game_phase_changed event, or game_reset: _cancel_running, and for a phase
\* _run(handler()).  p = "other": speaking, closed_bid, waiting or game_reset,
\* none of which touches the serving state.  With a serving event the server
\* begins a new serving phase.
sv_phase_changed(p) ==
    /\ ReaderFree
    /\ sv_events < MaxPhaseEvents
    /\ sv_events' = sv_events + 1
    /\ sv_task' = IF p = "other" THEN NoTask
                  ELSE [NoTask EXCEPT !.kind = p, !.pc = "created"]
    /\ IF p = "serving"
       THEN /\ meals' = <<>>
            /\ sse_pos' = 0
            /\ cooking' = <<>>
            /\ prepared' = <<>>
            /\ assigned' = <<>>
       ELSE UNCHANGED <<meals, sse_pos, cooking, prepared, assigned>>
    /\ UNCHANGED <<in_serving, seen_clients, dish_queue, pending_clients, menu_names,
                   sv_reader>>

\* The server: a client arrives during the serving phase.
spawn(c) ==
    /\ sv_task.kind = "serving"
    /\ Len(meals) < MaxClients
    /\ \A n \in DOMAIN meals : meals[n] # c
    /\ meals' = Append(meals, c)
    /\ UNCHANGED <<in_serving, seen_clients, dish_queue, pending_clients, menu_names,
                   sv_task, sv_reader, sse_pos, cooking, prepared, assigned, sv_events>>

\* on_client_spawned for the k-th client of the phase (the events of the
\* clients between sse_pos and k were lost).
on_client_spawned(k, acc) ==
    /\ ReaderFree
    /\ k \in (sse_pos + 1)..Len(meals)
    /\ sse_pos' = k
    /\ LET h == handle_new_client(meals[k], seen_clients, pending_clients, menu_names) IN
       IF in_serving
       THEN /\ seen_clients' = h.seen
            /\ pending_clients' = h.pending
            /\ IF h.dish = ""
               THEN UNCHANGED <<sv_reader, prepared, cooking>>
               ELSE /\ sv_reader' = [pc |-> "prepare", cur |-> meals[k], accepted |-> acc]
                    /\ Request(meals[k], acc)
       ELSE UNCHANGED <<seen_clients, pending_clients, sv_reader, prepared, cooking>>
    /\ UNCHANGED <<in_serving, dish_queue, menu_names, sv_task, meals, assigned,
                   sv_events>>

\* on_preparation_complete for the k-th dish in preparation: handle_dish_ready
\* up to its first await.
on_preparation_complete(k) ==
    /\ ReaderFree
    /\ k \in DOMAIN cooking
    /\ cooking' = SubSeq(cooking, 1, k - 1) \o SubSeq(cooking, k + 1, Len(cooking))
    /\ LET dish == cooking[k]
           waiting == Get(dish_queue, dish, <<>>)
       IN  IF in_serving /\ waiting # <<>>
           THEN /\ dish_queue' = Put(dish_queue, dish, Tail(waiting))
                /\ pending_clients' = pending_clients \ {Head(waiting)}
                /\ assigned' = Append(assigned, Head(waiting))
                /\ sv_reader' = [pc |-> "serve", cur |-> Head(waiting), accepted |-> FALSE]
           ELSE UNCHANGED <<dish_queue, pending_clients, assigned, sv_reader>>
    /\ UNCHANGED <<in_serving, seen_clients, menu_names, sv_task, meals, sse_pos,
                   prepared, sv_events>>

\* The handler the reader is suspended in resumes: prepare_dish has ended
\* (handle_new_client, lines 280-285), or handle_dish_ready's requests have.
reader_resume ==
    /\ sv_reader.pc # "idle"
    /\ IF sv_reader.pc = "prepare"
       THEN PrepareReturns(sv_reader.cur, sv_reader.accepted)
       ELSE UNCHANGED <<dish_queue, pending_clients>>
    /\ sv_reader' = IdleReader
    /\ UNCHANGED <<in_serving, seen_clients, menu_names, sv_task, meals, sse_pos,
                   cooking, prepared, assigned, sv_events>>

InitServe ==
    /\ OrchIdle
    /\ reader = "listening"
    /\ ReaderIdle
    /\ MarketIdle
    /\ BidIdle
    /\ ServeIdle

ServeOnly ==
    UNCHANGED <<current_turn_id, running_task, strategy_task, tasks, stasks, ready,
                strategy_file, reader, nevents, event_fault, unknown_phases,
                turn_reads, readerVars, marketVars, bidVars>>

NextServe ==
    \/ ServeOnly /\ \E p \in {"serving", "stopped", "other"} : sv_phase_changed(p)
    \/ ServeOnly /\ \E r \in {"ok", "err"}, acc \in BOOLEAN : run_serving_agent(r, acc)
    \/ ServeOnly /\ sv_stopped
    \/ ServeOnly /\ \E c \in ClientNames : spawn(c)
    \/ ServeOnly /\ \E k \in 1..MaxClients, acc \in BOOLEAN : on_client_spawned(k, acc)
    \/ ServeOnly /\ \E k \in 1..(2 * MaxClients) : on_preparation_complete(k)
    \/ ServeOnly /\ reader_resume

SpecServe == InitServe /\ [][NextServe]_vars

\* ------------------------------------------------------------ claims, SpecOrch

TaskIds == 1..Len(tasks)

\* A handler task that has run its first step and has not finished.
Executing(t) == t.started /\ ~TaskDone(t)

\* C1: single-flight: at every instant at most one phase-handler task started
\* by _run is executing; the previous handler has finished before the new one
\* runs its first step.
C1_SingleFlight == Cardinality({i \in TaskIds : Executing(tasks[i])}) <= 1

\* C3: after game_reset is processed the turn id is 0, the running handler is
\* cancelled and forgotten, the speculative strategy task is cancelled and
\* forgotten, and the serving flag is cleared.
C3_ResetClearsAll ==
    [][on_game_reset =>
          /\ current_turn_id' = 0
          /\ running_task' = 0
          /\ \A i \in TaskIds :
                (i = running_task /\ ~TaskDone(tasks[i])) =>
                    (tasks'[i].cancel \/ tasks'[i].st = "waitstrat")
          /\ strategy_task' = 0
          /\ \A j \in 1..Len(stasks) : TaskDone(stasks'[j]) \/ stasks'[j].cancel
          /\ in_serving' = FALSE]_vars

\* C4: on_closed_bid never goes on to run_bid_agent (and so never submits
\* bids) while the strategy task it found in _strategy_task is running; it
\* uses the task's targets when the task completed with targets; when the task
\* was cancelled or failed (or there was none) it uses the targets of
\* strategy.json when that file holds targets; it bids without a plan only
\* when neither yields targets.
C4_Decides(i) ==
    /\ tasks[i].phase = "closed_bid"
    /\ tasks[i].pc \in {"start", "await_strategy"}
    /\ tasks'[i].pc = "bid_prepare"

C5_FaultsContained ==
    /\ reader = "listening"
    /\ nevents < MaxEvents =>
          \A p \in Phases : ENABLED on_game_phase_changed(p, FALSE, 1)

\* C5 witness: an event handler raised, a phase handler raised, and a later
\* phase handler is running.
C5_Witness ==
    /\ event_fault
    /\ \E i, k \in TaskIds :
          i < k /\ tasks[i].outcome = "failed" /\ Executing(tasks[k])

\* C16: a game_phase_changed event whose phase name is none of the five known
\* phases starts no handler task and leaves the running handler as it is:
\* not cancelled, not replaced, nothing scheduled.
C16_UnknownPhaseIgnored ==
    [][\A h \in BOOLEAN, t \in 1..MaxTurn :
          on_game_phase_changed("unknown", h, t) =>
              UNCHANGED <<running_task, tasks, stasks, ready, in_serving,
                          strategy_task>>]_vars

\* An unknown phase was ignored while a handler was executing, and that
\* handler is still the running one, executing and not cancelled.
C16_Witness ==
    \E k \in DOMAIN unknown_phases :
        LET i == unknown_phases[k]
        IN /\ i # 0
           /\ running_task = i
           /\ Executing(tasks[i])
           /\ ~tasks[i].cancel

\* ---------------------------------------------------------- claims, SpecReader

\* C2: whenever the event-stream connection ends (I/O error, non-200 status,
\* clean close) the reader goes on to open a new connection after the delay;
\* it never terminates by itself.
C2_ReconnectsOnDrop ==
    [][((\E how \in {"close", "error"} : rd_drop(how)) \/ rd_connect("error"))
          => reader' \in {"sleeping", "connecting"}]_vars

\* C6: a line whose payload is no JSON object with type and data (undecodable
\* text, or valid JSON that is not an object) is dropped alone: the reader
\* stays on the same connection, listening, and dispatches nothing for it.
Malformed == {l \in Lines : l.body \in {"garbage", "nonobject"}}

C6_MalformedSkipped ==
    [][\A l \in Malformed : rd_line(l) =>
          (reader' = "listening" /\ dispatched' = dispatched)]_vars

\* The reconnecting readers are listen_loop (orchestrator.py) and
\* listen_with_reconnect (main.py).
Reconnecting == variant \in {"root", "main"}

\* C14: in the reconnecting readers every drop of the stream (and every
\* failed connection attempt) is followed by exactly one new connection
\* attempt, made once the delay is over, and reconnecting dispatches nothing:
\* an event is dispatched only for a line newly taken off the stream, never
\* again for a line read before the drop.
C14_OneReconnectNoReplay ==
    [][Reconnecting =>
         /\ (reader = "listening" /\ reader' # "listening") => reader' = "sleeping"
         /\ (reader = "connecting" /\ reader' # "listening") => reader' = "sleeping"
         /\ reader = "sleeping" => (reader' = "connecting" /\ connects' = connects + 1)
         /\ connects' # connects => reader = "sleeping"
         /\ lines_read' >= lines_read
         /\ dispatched' # dispatched =>
               /\ reader = "listening"
               /\ lines_read' = lines_read + 1
               /\ dispatched' = dispatched + 1]_vars

\* A reader that dispatched an event, lost the connection twice and is
\* listening again on its third connection, having dispatched nothing more.
C14_Witness ==
    /\ Reconnecting
    /\ reader = "listening"
    /\ connects = 3
    /\ dispatched = 1
    /\ lines_read = 1

\* ---------------------------------------- claims, SpecMarket and SpecLegacyMarket

\* C7: the buy loop of run_market_agent fetches the market in at most
\* MAX_BUY_ROUNDS rounds, whatever the order books and the outcomes of the
\* transactions, and also when the deficit is never covered.
C7_RoundCap == fetches <= MAX_BUY_ROUNDS /\ round_num <= MAX_BUY_ROUNDS

\* A real run that ended with its last round, having bought in every round,
\* with a deficit left.
C7_Witness ==
    /\ m_pc = "done"
    /\ ~dry_run
    /\ fetches = MAX_BUY_ROUNDS
    /\ Len(purchased_all) = MAX_BUY_ROUNDS
    /\ \E i \in DOMAIN to_buy : to_buy[i][2] > 0

\* C8: in one market run the cumulative cost of the accepted lots (price times
\* the lot's full quantity) never decreases and never exceeds
\* balance * BUDGET_FRACTION as computed at the start of the run.
C8_BudgetMonotone ==
    /\ [](committed10 <= balance * BUDGET_FRACTION10)
    /\ [][committed10' >= committed10]_vars

\* C9: when the matcher returns, the spend it has counted is the full cost
\* (price times listed quantity) of the lots it selected: no lot is counted
\* partially.
C9_AtomicLots ==
    [][(m_pc \in {"idle", "round"} /\ m_pc' \in {"exec", "done"})
          => spent10' = FullCost10(buy_list')]_vars

\* C10: every deficit the planner produces (build_ingredient_quantities,
\* compute_missing) and every value of the to_buy map of the market run, after
\* any number of rounds, is >= 0.
C10_DeficitsNonNegative ==
    /\ \A i \in DOMAIN planned.quantities : planned.quantities[i][2] >= 0
    /\ \A i \in DOMAIN to_buy : to_buy[i][2] >= 0

\* A real run has ended with a deficit at 0 after buying a lot of several units.
C10_Witness ==
    /\ ~dry_run
    /\ m_pc = "done"
    /\ \E i \in DOMAIN to_buy, k \in DOMAIN purchased_all :
          /\ to_buy[i][2] = 0
          /\ purchased_all[k].ing = to_buy[i][1]
          /\ purchased_all[k].qty > 1

\* C11: when the flagship and the secondary recipe share an ingredient, the
\* quantity build_ingredient_quantities plans for it is the flagship's deficit
\* plus the secondary's need less inventory and less that flagship deficit,
\* and it never exceeds the sum of both needs minus the inventory.
C11_Focus == recipes[1].ingredients
C11_Backup == recipes[2].ingredients
C11_Shared == {g \in Ingredients : Has(C11_Focus, g) /\ Has(C11_Backup, g)}
C11_FocusNeed(g) == Get(C11_Focus, g, 0) * planned.copies
C11_BackupNeed(g) == Get(C11_Backup, g, 0) * Max(1, planned.copies - 1)
C11_FocusDeficit(g) == Max(0, C11_FocusNeed(g) - Get(inventory, g, 0))
C11_BackupDeficit(g) ==
    Max(0, C11_BackupNeed(g) - (Get(inventory, g, 0) + C11_FocusDeficit(g)))
C11_Planned == planned.fn = "build_ingredient_quantities" /\ Len(recipes) >= 2

C11_NoDoubleCounting ==
    C11_Planned =>
        \A g \in C11_Shared :
            /\ Get(planned.quantities, g, 0) = C11_FocusDeficit(g) + C11_BackupDeficit(g)
            /\ Has(planned.quantities, g) =>
                   Get(planned.quantities, g, 0)
                       <= C11_FocusNeed(g) + C11_BackupNeed(g) - Get(inventory, g, 0)

\* A shared ingredient to which both the flagship and the secondary recipe
\* contribute.
C11_Witness ==
    /\ C11_Planned
    /\ \E g \in C11_Shared : /\ C11_FocusDeficit(g) > 0
                             /\ C11_BackupDeficit(g) > 0
                             /\ Has(planned.quantities, g)

\* -------------------------------------------------------------- claims, SpecBid

\* C12: the total planned spend of every bid batch submitted by run_bid_agent
\* (the sum of quantity * unit bid) is at most balance * BUDGET_FRACTION.
C12_SpendWithinBudget ==
    \A k \in DOMAIN bid_payload :
        10 * PlannedSpend(bid_payload[k]) <= b_balance * BID_BUDGET_FRACTION10

\* C13: when the balance is <= 0 run_bid_agent builds no bid and submits none,
\* whichever path it takes.
C13_NoBidsWithoutBalance ==
    (b_pc \in {"built", "done"} /\ b_balance <= 0) =>
        (bid_list = <<>> /\ bid_payload = <<>>)

\* --------------------------------------------------- claims, the planner and
\* the market run (continued)

\* The order book of the example: Salt x3 @ 2, Salt x5 @ 1, Pepper x1 @ 10.
C15_Book ==
    <<[id |-> 1, side |-> "SELL", ing |-> "Salt", price |-> 2, qty |-> 3],
      [id |-> 2, side |-> "SELL", ing |-> "Salt", price |-> 1, qty |-> 5],
      [id |-> 3, side |-> "SELL", ing |-> "Pepper", price |-> 10, qty |-> 1]>>

\* For deficit {Salt: 3, Pepper: 1} and budget 100 the matcher selects
\* exactly Salt x5 @ 1 and Pepper x1 @ 10, a spend of 15.
C15_Example ==
    find_best_entries(<<<<"Salt", 3>>, <<"Pepper", 1>>>>, C15_Book, 1000)
        = [to_buy |-> <<C15_Book[2], C15_Book[3]>>, spent |-> 150]

\* u is a lot of the book that the matcher left unselected although it was
\* eligible: a SELL lot within the price cap whose full cost still fits the
\* budget after the selected lots.
C15_EligibleUnselected(u, picked, spent, budget) ==
    /\ u.side = "SELL"
    /\ u.price <= MAX_PRICE_PER_UNIT
    /\ spent + 10 * u.price * u.qty <= budget
    /\ \A i \in DOMAIN picked : picked[i] # u

C15_InPriceOrder(book, picked, spent, budget) ==
    \A i \in DOMAIN picked, u \in book :
        (u.ing = picked[i].ing /\ C15_EligibleUnselected(u, picked, spent, budget))
            => picked[i].price <= u.price

\* C15: the matcher takes SELL lots in ascending unit-price order: it solves
\* the example as stated, and in every round of the buy loop no selected lot
\* has a higher unit price than an eligible lot of the same ingredient that
\* was left unselected.
C15_CheapestFirst ==
    /\ []C15_Example
    /\ [][\A book \in SUBSET BookLots :
             (m_pc = "round" /\ market_round(book, "ok"))
                 => C15_InPriceOrder(book, buy_list', spent10', budget10)]_vars

\* A round has just selected a lot and left a dearer eligible lot of the same
\* ingredient in the book.
C15_Witness ==
    /\ m_pc = "exec"
    /\ bought_this_round = <<>>
    /\ \E book \in SUBSET BookLots :
          /\ find_best_entries(to_buy, BookSeq(book), budget10)
                 = [to_buy |-> buy_list, spent |-> spent10]
          /\ \E i \in DOMAIN buy_list, u \in book :
                /\ u.ing = buy_list[i].ing
                /\ C15_EligibleUnselected(u, buy_list, spent10, budget10)
                /\ u.price > buy_list[i].price

\* C17: for recipes with positive integer quantities and any inventory, also
\* one that lacks a required ingredient as a key, the allocation of
\* run_market_agent completes: when no request of the client fails, the run
\* does not raise before the buy loop.
C17_AllocationNeverRaises ==
    [][\A dry \in BOOLEAN, sell \in BOOLEAN, bal \in Balances :
          market_start(dry, sell, bal, "ok") => m_pc' # "raised"]_vars

RECURSIVE C20_Usage(_, _)
\* The sum over the chosen recipes of their per-copy usage of ingredient g.
C20_Usage(menu_recipes, g) ==
    IF menu_recipes = <<>> THEN 0
    ELSE Get(Head(menu_recipes).ingredients, g, 0) + C20_Usage(Tail(menu_recipes), g)

\* C20: compute_surplus returns, for every inventory ingredient, the
\* inventory minus the summed usage of the chosen recipes, clipped at zero;
\* ingredients without leftover, and ingredients not in the inventory, are
\* omitted.
C20_SurplusLaw ==
    planned.fn = "compute_surplus" =>
        \A g \in Ingredients :
            LET leftover == Get(inventory, g, 0) - C20_Usage(recipes, g)
            IN /\ Get(planned.quantities, g, 0) = Max(0, leftover)
               /\ Has(planned.quantities, g) <=> (Has(inventory, g) /\ leftover > 0)

\* Two chosen recipes use the same ingredient; part of the stock is left over
\* for it, and another stocked ingredient is used up and omitted.
C20_Witness ==
    /\ planned.fn = "compute_surplus"
    /\ Len(recipes) = 2
    /\ \E g, h \in Ingredients :
          /\ Has(recipes[1].ingredients, g) /\ Has(recipes[2].ingredients, g)
          /\ Get(planned.quantities, g, 0) > 0
          /\ Get(planned.quantities, g, 0) < Get(inventory, g, 0)
          /\ Has(inventory, h) /\ ~Has(planned.quantities, h)
          /\ Get(inventory, h, 0) > 0

\* The step asks the server to accept the entry at the head of buy_list.
C18_Attempt == m_pc = "exec" /\ ~dry_run /\ Get(to_buy, Head(buy_list).ing, 0) > 0

\* C18: when execute_transaction raises, the lot is not counted as acquired:
\* the deficit, the budget, the virtual inventory, the committed spend and
\* the list of purchases are as they were before the attempt, and the round
\* goes on with the next lot of its list.
C18_FailedLotNotCounted ==
    [][(C18_Attempt /\ market_exec(FALSE)) =>
          /\ to_buy' = to_buy
          /\ budget10' = budget10
          /\ virtual_inv' = virtual_inv
          /\ committed10' = committed10
          /\ purchased_all' \o bought_this_round' = purchased_all \o bought_this_round
          /\ buy_list' = Tail(buy_list)
          /\ Tail(buy_list) # <<>> => m_pc' = "exec"]_vars

\* A real run in which a lot failed, another lot was bought afterwards, and
\* the failed lot is in no list of purchases.
C18_Witness ==
    /\ ~dry_run
    /\ m_pc = "done"
    /\ purchased_all # <<>>
    /\ \E id \in failed : \A k \in DOMAIN purchased_all : purchased_all[k].id # id

\* C19: within one market run an entry whose acceptance failed is not passed
\* to execute_transaction again, neither in the same round nor in a later one.
C19_NoResubmission ==
    [][(C18_Attempt /\ \E ok \in BOOLEAN : market_exec(ok))
          => Head(buy_list).id \notin failed]_vars

\* C21: the buy loop stops as soon as the deficit is fully covered: the order
\* book is fetched only while some ingredient of to_buy is still missing, so
\* no fetch happens after the whole deficit has been covered.
C21_NoFetchOnceCovered ==
    [][fetches' # fetches => \E i \in DOMAIN to_buy : to_buy[i][2] > 0]_vars

\* The deficit the allocation of this run produced, for runs whose target
\* recipes come from strategy.json.
C22_FirstDeficit == Allocate(SortByPrestige(recipes), inventory, <<>>).to_buy

RECURSIVE C22_Units(_, _)
\* The units of ingredient g in the accepted entries.
C22_Units(entries, g) ==
    IF entries = <<>> THEN 0
    ELSE (IF Head(entries).ing = g THEN Head(entries).qty ELSE 0)
         + C22_Units(Tail(entries), g)

\* The first deficit less the units of the entries accepted so far.
C22_DeficitLeft ==
    [i \in DOMAIN C22_FirstDeficit |->
        <<C22_FirstDeficit[i][1],
          Max(0, C22_FirstDeficit[i][2] - C22_Units(purchased_all, C22_FirstDeficit[i][1]))>>]

\* The first budget less the full cost of the entries accepted so far.
C22_BudgetLeft == balance * BUDGET_FRACTION10 - FullCost10(purchased_all)

\* C22: every round of the buy loop fetches the order book anew (round k makes
\* the k-th fetch) and matches that book against the deficit and the budget as
\* the acceptances of all previous rounds have left them, never against the
\* values of round 1 once a lot was accepted.
C22_RoundsUseCurrentState ==
    /\ []((m_pc = "round" /\ recipes # <<>>) =>
             (to_buy = C22_DeficitLeft /\ budget10 = C22_BudgetLeft))
    /\ [][m_pc = "round" =>
             /\ fetches' = round_num
             /\ m_pc' # "raised" =>
                   \E book \in SUBSET BookLots :
                       LET m == find_best_entries(to_buy, BookSeq(book), budget10)
                       IN /\ buy_list' = m.to_buy
                          /\ spent10' = m.spent]_vars

\* The second round has selected lots after the first round bought one, and a
\* match of the same book against the first deficit and budget would have
\* selected other lots.
C22_Witness ==
    /\ m_pc = "exec"
    /\ round_num = 2
    /\ recipes # <<>>
    /\ purchased_all # <<>>
    /\ bought_this_round = <<>>
    /\ \E book \in SUBSET BookLots :
          /\ find_best_entries(to_buy, BookSeq(book), budget10)
                 = [to_buy |-> buy_list, spent |-> spent10]
          /\ find_best_entries(C22_FirstDeficit, BookSeq(book),
                               balance * BUDGET_FRACTION10).to_buy # buy_list

\* ------------------------------------------------------------ claims, SpecMatch

\* s is an initial segment of t.
C23_IsPrefix(s, t) == Len(s) <= Len(t) /\ s = SubSeq(t, 1, Len(s))

\* C23: for each needed ingredient the lots the matcher selects form a prefix
\* of that ingredient's SELL lots sorted by price: no lot is taken after one
\* was rejected.
C23_SelectionIsPrefix ==
    [][\A impl \in {"hackapizza", "legacy"}, book \in SUBSET MatchLots :
          match(impl, book) =>
              \A g \in Ingredients :
                  C23_IsPrefix(SelectSeq(buy_list', LAMBDA e : e.ing = g),
                               SortByPrice(SelectSeq(BookSeq(book),
                                   LAMBDA e : e.side = "SELL" /\ e.ing = g)))]_vars

\* The external actions of the phase handlers: client.closed_bid (the step
\* that suspends on it), update_restaurant_is_open(True) in on_waiting and
\* update_restaurant_is_open(False) in run_serving_agent.
C24_ExternalAction(i) ==
    /\ tasks'[i].pc # tasks[i].pc
    /\ tasks'[i].pc \in {"bid_submit", "open", "closing"}

\* C24: once cancel() has been called on a phase handler's task, the handler
\* issues no further external action: no bid submission and no open/close
\* toggle.
C24_NoActionAfterCancel ==
    [][\A i \in TaskIds : tasks[i].signalled => ~C24_ExternalAction(i)]_vars

\* -------------------------------------------------- claims, SpecBid (continued)

\* C25: every bid of every batch passed to client.closed_bid has a quantity
\* > 0, whichever path run_bid_agent took: entries of ingredient_quantities
\* with a quantity <= 0 give no bid.
C25_PositiveQuantities ==
    \A k \in DOMAIN bid_payload :
        \A i \in DOMAIN bid_payload[k] : bid_payload[k][i].quantity > 0

\* A batch was submitted on the quantities path, and an ingredient that the
\* strategy lists with a negative quantity has no bid in it.
C25_Witness ==
    /\ b_pc = "done"
    /\ bid_path = "quantities"
    /\ bid_payload # <<>>
    /\ \E j \in DOMAIN b_quantities :
          /\ b_quantities[j][2] < 0
          /\ \A i \in DOMAIN bid_payload[1] :
                bid_payload[1][i].ingredient # b_quantities[j][1]

\* The bid of position i of the legacy path's list is for a primary ingredient.
C26_Primary(i) == i <= Min(b_primary_count, bids_before)

\* The integer share of the sub-budget of the bid at position i of the legacy
\* path: 70% of balance * BUDGET_FRACTION over the primary ingredients and 30%
\* over the others, or the whole of it over all when there is no primary.
C26_Share(i) ==
    LET budget == Min(10 * MAX_BUDGET, b_balance * BID_BUDGET_FRACTION10)
        n_primary == Min(b_primary_count, bids_before)
    IN IF n_primary = 0 THEN budget \div (10 * bids_before)
       ELSE IF C26_Primary(i) THEN (budget * 70) \div (1000 * n_primary)
       ELSE (budget * 30) \div (1000 * (bids_before - n_primary))

\* C26: the unit bid of every bid that the path taken built is, for an
\* ingredient with a price hint, hint * 1.05 truncated to an integer, at least
\* 1 and never below the hint; without a hint it is DEFAULT_BID, or on the
\* legacy path the larger of DEFAULT_BID and the ingredient's integer share of
\* the sub-budget.
C26_UnitBid ==
    b_pc \in {"built", "done"} =>
        \A i \in 1..bids_before :
            LET b == bid_list[i]
                hint == Get(b_price_hints, b.ingredient, 0)
            IN IF Has(b_price_hints, b.ingredient)
               THEN /\ b.bid = Max(1, (hint * 105) \div 100)
                    /\ b.bid >= hint
               ELSE IF bid_path = "legacy"
               THEN b.bid = Max(DEFAULT_BID, C26_Share(i))
               ELSE b.bid = DEFAULT_BID

\* The legacy path has built a bid above the hint of its ingredient and a bid,
\* for an ingredient without hint, at the ingredient's share of the budget.
C26_Witness ==
    /\ b_pc = "done"
    /\ bid_path = "legacy"
    /\ \E i, j \in 1..bids_before :
          /\ Has(b_price_hints, bid_list[i].ingredient)
          /\ bid_list[i].bid > Get(b_price_hints, bid_list[i].ingredient, 0)
          /\ ~Has(b_price_hints, bid_list[j].ingredient)
          /\ bid_list[j].bid > DEFAULT_BID
          /\ bid_list[j].bid = C26_Share(j)

\* ------------------------------------- claims, the market run (sell-side listing)

\* The number of entries of the list that are for ingredient g.
C27_Lots(entries, g) == Cardinality({k \in DOMAIN entries : entries[k].ing = g})

\* The price of every lot follows from the cost file purchased_inv: the cost
\* with the 5% markup, an integer >= 1 and >= the cost, when the cost is known
\* (> 0), and SELL_PRICE otherwise.
C27_Priced(entries, purchased_inv) ==
    \A k \in DOMAIN entries :
        LET cost_paid == Get(purchased_inv, entries[k].ing, 0)
        IN IF cost_paid > 0
           THEN /\ entries[k].price = Max(1, (cost_paid * 105) \div 100)
                /\ entries[k].price >= cost_paid
           ELSE entries[k].price = SELL_PRICE

C28_CancelledServingCloses ==
    [][\A i \in DOMAIN tasks :
          (/\ tasks[i].phase = "serving"
           /\ tasks[i].started
           /\ tasks[i].signalled
           /\ TaskDone(tasks'[i])) => tasks[i].pc = "closing"]_vars

\* ------------------------------------------------------- claims, SpecServe

\* C29: within one serving phase no client name is the subject of two
\* prepare_dish requests, whether the client is reported by its client_spawned
\* event, by the polling loop, or by both.
C29_PrepareOncePerClient ==
    \A i, j \in DOMAIN prepared : i # j => prepared[i] # prepared[j]

\* The position in this phase's requests of the first prepare_dish for name:
\* the order in which the clients' orders were taken.
C30_Accepted(name) ==
    CHOOSE n \in DOMAIN prepared :
        prepared[n] = name /\ \A m \in 1..(n - 1) : prepared[m] # name

\* C30: a dish that becomes ready goes to the client whose order for it was
\* taken first among the clients still waiting for that dish: nobody left in
\* the dish's queue had their order taken before the client served.
C30_QueueIsFifo ==
    [][Len(assigned') = Len(assigned) + 1 =>
          LET c == assigned'[Len(assigned')]
              still == Get(dish_queue', OrderText(c), <<>>)
          IN  \A n \in DOMAIN still :
                 ((\E m \in DOMAIN prepared : prepared[m] = c)
                  /\ (\E m \in DOMAIN prepared : prepared[m] = still[n]))
                 => C30_Accepted(c) < C30_Accepted(still[n])]_vars

\* ------------------------------------- claims, the orchestrator's serving flag

\* C31: _in_serving is set only while the current phase is serving, the phase
\* of the handler task _running_task holds: client_spawned and
\* preparation_complete are forwarded to the serving agent only then.
C31_InServingOnlyWhileServing ==
    in_serving => /\ running_task # 0
                  /\ tasks[running_task].phase = "serving"

\* ------------------------------------- claims, the strategy task's cancellation

\* C32: the strategy task is cancelled only by the on_speaking step that
\* creates its replacement; no cancellation of a phase handler reaches it.
C32_StrategyCancelledOnlyBySpeaking ==
    [][\A j \in DOMAIN stasks :
          (~stasks[j].cancel /\ stasks'[j].cancel) => Len(stasks') = Len(stasks) + 1]_vars

\* ------------------------------------------------------- claims, SpecTurn

\* C33: a handler started by a phase event that carries turn id t reads t as
\* the turn id when it runs.
C33_HandlerReadsEventTurn ==
    \A i \in DOMAIN turn_reads :
        (turn_reads[i].event # 0 /\ turn_reads[i].read # -1)
            => turn_reads[i].read = turn_reads[i].event

\* ------------------------------------- claims, the plan consumed by closed_bid

\* C34: a closed_bid handler takes its plan from strategy.json only when the
\* strategy task of its turn, the one it found in _strategy_task, wrote that
\* file: the task returned targets.
C34_PlanOfThisTurn ==
    \A i \in DOMAIN tasks :
        tasks[i].src = "file" =>
            /\ tasks[i].awaited # 0
            /\ stasks[tasks[i].awaited].outcome = "targets"

\* ------------------------------------- claims, SpecServe: the order of dispatch

\* C35: an event (a phase change or reset, client_spawned,
\* preparation_complete) is dispatched only when the handler of the previous
\* event has returned, so never while a handler is suspended in a request; and
\* the client_spawned events of a phase are dispatched in arrival order.
C35_OneEventAtATime ==
    [][/\ (sv_events' # sv_events \/ sse_pos' # sse_pos \/ Len(cooking') < Len(cooking))
           => sv_reader.pc = "idle"
       /\ sse_pos' # sse_pos => (sse_pos' > sse_pos \/ sv_events' # sv_events)]_vars

\* The second client's event has been dispatched after the first client's
\* handler returned, and the reader is now held by its handler while a dish is
\* in preparation, whose preparation_complete has to wait.
C35_Witness ==
    /\ sse_pos = 2
    /\ sv_reader.pc = "prepare"
    /\ sv_reader.cur = meals[2]
    /\ prepared = meals
    /\ Get(dish_queue, "pizza", <<>>) = <<meals[1]>>
    /\ cooking # <<>>
    /\ sv_task.pc \in {"sleep", "get_meals"}

\* ------------------------------------- claims, SpecServe: ready dishes

\* C36: while the serving agent receives the events, a preparation_complete
\* for a dish the server prepared on request finds a client in the dish's
\* queue: the dish is assigned, not ignored.
C36_ReadyDishFindsClient ==
    [][(/\ Len(cooking') = Len(cooking) - 1
        /\ sv_events' = sv_events
        /\ in_serving
        /\ sv_task.kind = "serving"
        /\ sv_task.pc # "created") => Len(assigned') = Len(assigned) + 1]_vars

\* ------------------------------------- claims, SpecServe: skipped clients

\* C37: a client of the running serving phase whose order names a dish of the
\* published menu is not skipped: once the client is in _seen_clients, where
\* no later event or poll looks at it again, prepare_dish has been requested
\* for it.
C37_NoMatchingClientSkipped ==
    (sv_task.kind = "serving" /\ sv_task.pc # "created") =>
        \A n \in DOMAIN meals :
            (meals[n] \in seen_clients /\ OrderText(meals[n]) \in Menu)
                => \E m \in DOMAIN prepared : prepared[m] = meals[n]

\* ------------------------------------- claims, SpecServe: one dish per client

\* C38: within one serving phase no client is taken off a waiting queue, and
\* so handed to serve_dish, twice.
C38_AssignedOnce ==
    \A i, j \in DOMAIN assigned : i # j => assigned[i] # assigned[j]

\* ------------------------------------- claims, the allocation loop's termination

\* C39: for every inventory and every list of target recipes, whose quantities
\* are positive integers, each recipe's allocation loop is left after at most
\* one pass more than the stock it can take, every allocating pass taking at
\* least one unit; and the run goes on with the inventory the loop ended with.
C39_AllocationTerminates ==
    /\ [](recipes # <<>> =>
             LET e == AllocationPasses(SortByPrestige(recipes), inventory)
             IN  e.ended /\ e.within)
    /\ [][(/\ m_pc = "idle" /\ m_pc' \in {"round", "done"}
           /\ recipes # <<>>
           /\ virtual_inv' # virtual_inv) =>
             virtual_inv' = AllocationPasses(SortByPrestige(recipes), inventory).inv]_vars

\* A run has started whose allocation loop allocated a full copy of a recipe
\* and planned the purchase of a single missing ingredient before it stopped.
C39_Witness ==
    /\ m_pc = "round"
    /\ Len(recipes) = 1
    /\ to_buy # <<>>
    /\ LET ings == recipes[1].ingredients
       IN  /\ Len(ings) = 2
           /\ RecipePasses(ings, inventory, AllocFuel).n >= 3
           /\ \A k \in DOMAIN ings : Get(inventory, ings[k][1], 0) >= ings[k][2]

====
